---- MODULE Spec2Model ----
(***************************************************************************)
(* Canvas persistence, sharing and permission model of 75am-sitev2.        *)
(*                                                                         *)
(* The canvas service (lib/canvas.ts, whose text is kept at the end of     *)
(* src/docs/railway-nextjs-auth-guide.md) and the asset service            *)
(* (src/lib/assets.ts) run on top of three relational tables defined by    *)
(* the Prisma schema (src/app/admin/page.tsx): Canvas, CanvasShare and     *)
(* CanvasAsset.  The tables are the state; every service function is an    *)
(* action.  Spec runs each service call to completion before the next one  *)
(* starts; SpecConc splits the calls that a concurrent request can         *)
(* interleave with at their await points.                                  *)
(***************************************************************************)
EXTENDS Integers, FiniteSets, Sequences, TLC

(***************************************************************************)
(* Bounds and input domains.                                               *)
(***************************************************************************)
\* Saves are applied while the version is below this cap.
MaxVersion == 3
\* The CanvasAsset table holds at most this many rows.
MaxAssets == 2
\* At most this many requests are between their lookup and their write.
MaxPending == 2

\* The database clock runs up to this tick.
MaxClock == 2
\* The client's store changes at most this many times.
MaxChanges == 3
\* The browser's clock runs for this many ticks.
MaxTicks == 5
\* listCanvases is asked for pages 1..MaxPage of 1..MaxLimit items.
MaxPage == 2
MaxLimit == 2

Users == {"u1", "u2", "u3"}
\* uuid()s the database can hand out for Canvas.id
CanvasIds == {"c1", "c2"}
\* an id no Canvas row ever carries (the id the test script addresses)
MissingCanvas == "non-existent-canvas"
RequestIds == CanvasIds \cup {MissingCanvas}
\* tldraw asset ids a client sends
AssetIds == {"asset:1"}
\* uuid()s the database can hand out for CanvasAsset.id
AssetRowIds == {"r1", "r2", "r3"}

\* enum PermissionLevel
Levels == {"VIEW", "EDIT", "ADMIN"}

\* documents: a tldraw store snapshot, record id -> record
EmptyDoc == << >>
DocShape == [k \in {"shape:test"} |-> [type |-> "geo"]]
Docs == {EmptyDoc, DocShape}
\* a document whose image shape refers to an asset by props.assetId
DocImage ==
  [k \in {"shape:image"} |-> [type |-> "image", props |-> [assetId |-> "asset:1"]]]
EmptySession == "{}"
\* An optional argument is the empty set (undefined) or a singleton.
Undefined == {}
Some(x) == {x}
TheValue(o) == CHOOSE x \in o : TRUE

\* The arguments (document, session, name, description) saveCanvas is called with.
SaveRequests ==
  { [document |-> DocShape, session |-> Undefined,
     name |-> Some("Updated Test Canvas"), description |-> Undefined],
    [document |-> EmptyDoc, session |-> Some("session:1"),
     name |-> Undefined, description |-> Some("about")] }

VARIABLES
  canvas,    \* Canvas table: id -> row, DOMAIN canvas = the ids with a row
  issued,    \* Canvas ids uuid() has generated so far (never generated again)
  shares,    \* CanvasShare table: set of rows
  assets,    \* CanvasAsset table: set of rows
  saves,     \* canvas id -> the saveCanvas calls that returned (history): how
             \* many, and the document of the latest
  deleted,   \* canvas ids whose deleteCanvas returned (history)
  pending,   \* requests whose permission lookup has run and whose write has not
  last,      \* what the last completed call returned or threw
  now,       \* the database clock that stamps Canvas.updatedAt
  r2,        \* the R2 bucket: the keys that hold an object
  lookupDown,\* TRUE while the canvas lookup of checkCanvasPermission throws
  returned,  \* the versions concurrent saveCanvas calls returned, in the order
             \* the calls returned (history)
  editor,    \* the editor of the TldrawWrapper component: "null" before
             \* handleMount, "mounted", "unmounted" after the effect's cleanup
  timeoutId, \* let timeoutId of the auto-save effect, 0 while it is unset
  timers,    \* the browser's pending timers: id and the time they are due
  clock,     \* the browser's time in ms
  store,     \* the document of the editor's store
  changes,   \* the times of the store changes the listener was called for (history)
  fired      \* the times the timer callback ran saveCanvas, each with the number
             \* of earlier save requests still in flight (history)

db == <<canvas, issued, shares, assets>>
\* what the calls of the canvas service leave as it is
\* the state of the client
client == <<editor, timeoutId, timers, clock, store, changes, fired>>
env == <<now, r2, lookupDown, returned, client>>
vars == <<canvas, issued, shares, assets, saves, deleted, pending, last,
          now, r2, lookupDown, returned, client>>

(***************************************************************************)
(* Permission evaluator.                                                   *)
(***************************************************************************)
\* const permissionLevels = { 'VIEW': 1, 'EDIT': 2, 'ADMIN': 3 }
permissionLevels(level) ==
  CASE level = "VIEW" -> 1
    [] level = "EDIT" -> 2
    [] level = "ADMIN" -> 3

\* mutant: the share filter forgets the canvas
SharesOf_AnyCanvas(sh, canvasId, userId) ==
  {s \in sh : s.userId = userId}

\* include: { shares: { where: { userId } } } of canvas canvasId
SharesOf(sh, canvasId, userId) ==
  {s \in sh : s.canvasId = canvasId /\ s.userId = userId}

\* mutant: no owner bypass, the owner is judged by the share row like anyone else
CheckPermissionIn_NoOwnerBypass(cv, sh, userId, canvasId, requiredLevel) ==
  IF canvasId \notin DOMAIN cv THEN FALSE
  ELSE IF cv[canvasId].isPublic /\ requiredLevel = "VIEW" THEN TRUE
  ELSE LET mine == SharesOf(sh, canvasId, userId) IN
       IF mine = {} THEN cv[canvasId].userId = userId
       ELSE LET share == CHOOSE s \in mine : TRUE IN
            permissionLevels(share.permissionLevel) >= permissionLevels(requiredLevel)

\* mutant: the comparison of the ranks is strict
CheckPermissionIn_StrictCompare(cv, sh, userId, canvasId, requiredLevel) ==
  IF canvasId \notin DOMAIN cv THEN FALSE
  ELSE IF cv[canvasId].userId = userId THEN TRUE
  ELSE IF cv[canvasId].isPublic /\ requiredLevel = "VIEW" THEN TRUE
  ELSE LET mine == SharesOf(sh, canvasId, userId) IN
       IF mine = {} THEN FALSE
       ELSE LET share == CHOOSE s \in mine : TRUE IN
            permissionLevels(share.permissionLevel) > permissionLevels(requiredLevel)

\* checkCanvasPermission over explicit tables cv (Canvas) and sh (CanvasShare)
CheckPermissionIn(cv, sh, userId, canvasId, requiredLevel) ==
  IF canvasId \notin DOMAIN cv THEN FALSE
  ELSE IF cv[canvasId].userId = userId THEN TRUE
  ELSE IF cv[canvasId].isPublic /\ requiredLevel = "VIEW" THEN TRUE
  ELSE LET mine == SharesOf(sh, canvasId, userId) IN
       IF mine = {} THEN FALSE
       ELSE LET share == CHOOSE s \in mine : TRUE IN
            permissionLevels(share.permissionLevel) >= permissionLevels(requiredLevel)

\* mutant: a failed lookup is not caught, the stored rows decide as if it had run
checkCanvasPermission_IgnoresFailure(userId, canvasId, requiredLevel) ==
  CheckPermissionIn(canvas, shares, userId, canvasId, requiredLevel)

\* try { ... } catch (error) { console.error(...); return false }
checkCanvasPermission(userId, canvasId, requiredLevel) ==
  IF lookupDown THEN FALSE
  ELSE CheckPermissionIn(canvas, shares, userId, canvasId, requiredLevel)

(***************************************************************************)
(* Table operations.                                                       *)
(***************************************************************************)
\* prisma.canvas.create: the new row of createCanvas
NewCanvasRow(userId, name, description, isPublic) ==
  [userId |-> userId, name |-> name, description |-> description,
   isPublic |-> isPublic, documentData |-> EmptyDoc,
   sessionData |-> EmptySession, version |-> 1, updatedAt |-> now]

\* mutant: the update adds 2 to the version
UpdatedCanvasRow_VersionPlusTwo(row, req) ==
  [row EXCEPT !.documentData = req.document, !.version = @ + 2]

\* mutant: the update leaves documentData as it was
UpdatedCanvasRow_KeepsDocument(row, req) ==
  [row EXCEPT !.sessionData = IF req.session # Undefined
                              THEN TheValue(req.session) ELSE @,
              !.name = IF req.name # Undefined THEN TheValue(req.name) ELSE @,
              !.description = IF req.description # Undefined
                              THEN req.description ELSE @,
              !.version = @ + 1]

\* prisma.canvas.update of saveCanvas: the row after the update
UpdatedCanvasRow(row, req) ==
  [row EXCEPT !.documentData = req.document,
              !.sessionData = IF req.session # Undefined
                              THEN TheValue(req.session) ELSE @,
              !.name = IF req.name # Undefined THEN TheValue(req.name) ELSE @,
              !.description = IF req.description # Undefined
                              THEN req.description ELSE @,
              !.version = @ + 1,
              !.updatedAt = now]

\* mutant: the upsert always takes its create branch
UpsertShare_AlwaysCreates(sh, canvasId, targetUserId, permissionLevel, ownerId) ==
  sh \cup {[canvasId |-> canvasId, userId |-> targetUserId,
            permissionLevel |-> permissionLevel, sharedBy |-> ownerId]}

\* prisma.canvasShare.upsert on the unique key (canvasId, userId)
UpsertShare(sh, canvasId, targetUserId, permissionLevel, ownerId) ==
  IF SharesOf(sh, canvasId, targetUserId) # {}
  THEN {IF s.canvasId = canvasId /\ s.userId = targetUserId
        THEN [s EXCEPT !.permissionLevel = permissionLevel] ELSE s : s \in sh}
  ELSE sh \cup {[canvasId |-> canvasId, userId |-> targetUserId,
                 permissionLevel |-> permissionLevel, sharedBy |-> ownerId]}

\* mutant: the delete removes nothing
DeleteShare_KeepsRow(sh, canvasId, targetUserId) == sh

\* prisma.canvasShare.delete on the unique key (canvasId, userId)
DeleteShare(sh, canvasId, targetUserId) ==
  sh \ SharesOf(sh, canvasId, targetUserId)

\* CanvasError code -> HTTP status in the route handlers' catch blocks
canvasErrorStatus(code) ==
  IF code = "NOT_FOUND" THEN 404
  ELSE IF code = "PERMISSION_DENIED" THEN 403 ELSE 400

Init ==
  /\ canvas = << >>
  /\ issued = {}
  /\ shares = {}
  /\ assets = {}
  /\ saves = [c \in CanvasIds |-> [n |-> 0, document |-> EmptyDoc]]
  /\ deleted = {}
  /\ pending = {}
  /\ last = [op |-> "none", code |-> "OK"]
  /\ now = 1
  /\ r2 = {}
  /\ lookupDown = FALSE
  /\ returned = << >>
  /\ editor = "null"
  /\ timeoutId = 0
  /\ timers = {}
  /\ clock = 0
  /\ store = EmptyDoc
  /\ changes = << >>
  /\ fired = << >>

(***************************************************************************)
(* Canvas service.  A function that awaits a lookup and then a write is    *)
(* written as the lookup's outcome followed by the write (...Write); the   *)
(* write meets the tables as they are when it runs.                        *)
(***************************************************************************)
\* id: the uuid() the database generates for the row, never one it generated before
createCanvas(userId, isPublic, id) ==
  /\ id \notin issued
  /\ canvas' = (id :> NewCanvasRow(userId, "Test Canvas", Undefined, isPublic)) @@ canvas
  /\ issued' = issued \cup {id}
  /\ last' = [op |-> "createCanvas", userId |-> userId, canvasId |-> id,
              code |-> "OK", version |-> canvas'[id].version]
  /\ UNCHANGED <<shares, assets, saves, deleted, pending>>
  /\ UNCHANGED env

\* mutant: saveCanvas asks for VIEW
SavePermission_View(userId, canvasId) == checkCanvasPermission(userId, canvasId, "VIEW")

\* const hasPermission = await checkCanvasPermission(userId, canvasId, 'EDIT')
SavePermission(userId, canvasId) == checkCanvasPermission(userId, canvasId, "EDIT")

\* dbOk = FALSE: prisma.canvas.update throws (the catch block rethrows a
\* CanvasError without a code)
saveCanvas(userId, canvasId, req, dbOk) ==
  /\ canvasId \in DOMAIN canvas => canvas[canvasId].version < MaxVersion
  /\ IF ~SavePermission(userId, canvasId)
     THEN /\ last' = [op |-> "saveCanvas", userId |-> userId, canvasId |-> canvasId,
                      code |-> "PERMISSION_DENIED"]
          /\ UNCHANGED <<canvas, saves>>
     ELSE IF ~dbOk
     THEN /\ last' = [op |-> "saveCanvas", userId |-> userId, canvasId |-> canvasId,
                      code |-> "FAILED"]
          /\ UNCHANGED <<canvas, saves>>
     ELSE /\ canvas' = [canvas EXCEPT ![canvasId] = UpdatedCanvasRow(@, req)]
          /\ saves' = [saves EXCEPT ![canvasId] = [n |-> @.n + 1, document |-> req.document]]
          /\ last' = [op |-> "saveCanvas", userId |-> userId, canvasId |-> canvasId,
                      code |-> "OK", version |-> canvas'[canvasId].version,
                      document |-> req.document]
  /\ UNCHANGED <<issued, shares, assets, deleted, pending>>
  /\ UNCHANGED env

\* mutant: a failed VIEW check is reported as PERMISSION_DENIED
LoadCanvasResult_PermissionDenied(userId, canvasId) ==
  IF canvasId \notin DOMAIN canvas
  THEN [code |-> "NOT_FOUND", message |-> "Canvas not found"]
  ELSE IF ~checkCanvasPermission(userId, canvasId, "VIEW")
  THEN [code |-> "PERMISSION_DENIED", message |-> "Canvas not found or access denied"]
  ELSE [code |-> "OK", document |-> canvas[canvasId].documentData,
        session |-> canvas[canvasId].sessionData,
        version |-> canvas[canvasId].version,
        name |-> canvas[canvasId].name,
        assets |-> {a \in assets : a.canvasId = canvasId}]

\* the LoadCanvasResponse, or the CanvasError, of loadCanvas in the current tables
LoadCanvasResult(userId, canvasId) ==
  IF ~checkCanvasPermission(userId, canvasId, "VIEW")
  THEN [code |-> "NOT_FOUND", message |-> "Canvas not found or access denied"]
  ELSE IF canvasId \notin DOMAIN canvas
  THEN [code |-> "NOT_FOUND", message |-> "Canvas not found"]
  ELSE [code |-> "OK", document |-> canvas[canvasId].documentData,
        session |-> canvas[canvasId].sessionData,
        version |-> canvas[canvasId].version,
        name |-> canvas[canvasId].name,
        assets |-> {a \in assets : a.canvasId = canvasId}]

\* after: the user whose successful saveCanvas on this canvas was the call before
loadCanvas(userId, canvasId) ==
  /\ last' = [op |-> "loadCanvas", userId |-> userId, canvasId |-> canvasId,
              code |-> LoadCanvasResult(userId, canvasId).code,
              result |-> LoadCanvasResult(userId, canvasId),
              after |-> IF last.op = "saveCanvas" /\ last.code = "OK"
                           /\ last.canvasId = canvasId
                        THEN Some(last.userId) ELSE Undefined]
  /\ UNCHANGED <<canvas, issued, shares, assets, saves, deleted, pending>>
  /\ UNCHANGED env

\* prisma.canvas.delete with onDelete: Cascade on CanvasAsset.canvas and
\* CanvasShare.canvas
DeleteCanvasRow(cv, canvasId) == [c \in DOMAIN cv \ {canvasId} |-> cv[c]]
CascadeRows(rows, canvasId) == {r \in rows : r.canvasId # canvasId}

\* prisma.canvas.delete throws when the row is gone: the catch block rethrows
\* a CanvasError without a code
DeleteCanvasWrite(userId, canvasId) ==
  IF canvasId \in DOMAIN canvas
  THEN /\ canvas' = DeleteCanvasRow(canvas, canvasId)
       /\ shares' = CascadeRows(shares, canvasId)
       /\ assets' = CascadeRows(assets, canvasId)
       /\ deleted' = deleted \cup {canvasId}
       /\ last' = [op |-> "deleteCanvas", userId |-> userId, canvasId |-> canvasId,
                   code |-> "OK"]
  ELSE /\ last' = [op |-> "deleteCanvas", userId |-> userId, canvasId |-> canvasId,
                   code |-> "FAILED"]
       /\ UNCHANGED <<canvas, shares, assets, deleted>>

DeleteCanvasDenied(userId, canvasId) ==
  /\ last' = [op |-> "deleteCanvas", userId |-> userId, canvasId |-> canvasId,
              code |-> "PERMISSION_DENIED"]
  /\ UNCHANGED <<canvas, shares, assets, deleted>>

\* mutant: deleteCanvas asks for EDIT
DeletePermission_Edit(userId, canvasId) == checkCanvasPermission(userId, canvasId, "EDIT")

\* const hasPermission = await checkCanvasPermission(userId, canvasId, 'ADMIN')
DeletePermission(userId, canvasId) == checkCanvasPermission(userId, canvasId, "ADMIN")

deleteCanvas(userId, canvasId) ==
  /\ IF ~DeletePermission(userId, canvasId)
     THEN DeleteCanvasDenied(userId, canvasId)
     ELSE DeleteCanvasWrite(userId, canvasId)
  /\ UNCHANGED <<issued, saves, pending>>
  /\ UNCHANGED env

\* mutant: a holder of an ADMIN share passes the owner lookup too
OwnedCanvas_OrAdminShare(cv, ownerId, canvasId) ==
  /\ canvasId \in DOMAIN cv
  /\ \/ cv[canvasId].userId = ownerId
     \/ \E s \in SharesOf(shares, canvasId, ownerId) : s.permissionLevel = "ADMIN"

\* prisma.canvas.findUnique({ where: { id: canvasId, userId: ownerId } })
OwnedCanvas(cv, ownerId, canvasId) ==
  canvasId \in DOMAIN cv /\ cv[canvasId].userId = ownerId

\* The upsert's create meets the foreign key CanvasShare.canvasId -> Canvas.id:
\* with the canvas row gone it throws and the catch block rethrows a
\* CanvasError without a code.
ShareCanvasWrite(ownerId, canvasId, targetUserId, permissionLevel) ==
  IF canvasId \in DOMAIN canvas
  THEN /\ shares' = UpsertShare(shares, canvasId, targetUserId, permissionLevel, ownerId)
       /\ last' = [op |-> "shareCanvas", userId |-> ownerId, canvasId |-> canvasId,
                   target |-> targetUserId, code |-> "OK",
                   permissionLevel |-> permissionLevel,
                   hadShare |-> SharesOf(shares, canvasId, targetUserId) # {},
                   before |-> [l \in Levels |->
                                 checkCanvasPermission(targetUserId, canvasId, l)]]
  ELSE /\ last' = [op |-> "shareCanvas", userId |-> ownerId, canvasId |-> canvasId,
                   target |-> targetUserId, code |-> "FAILED"]
       /\ UNCHANGED shares

ShareCanvasNotFound(ownerId, canvasId, targetUserId) ==
  /\ last' = [op |-> "shareCanvas", userId |-> ownerId, canvasId |-> canvasId,
              target |-> targetUserId, code |-> "NOT_FOUND"]
  /\ UNCHANGED shares

shareCanvas(ownerId, canvasId, targetUserId, permissionLevel) ==
  /\ IF ~OwnedCanvas(canvas, ownerId, canvasId)
     THEN ShareCanvasNotFound(ownerId, canvasId, targetUserId)
     ELSE ShareCanvasWrite(ownerId, canvasId, targetUserId, permissionLevel)
  /\ UNCHANGED <<canvas, issued, assets, saves, deleted, pending>>
  /\ UNCHANGED env

\* prisma.canvasShare.delete throws when no row has the key: the catch block
\* rethrows a CanvasError without a code.
\* prior: when the call before was the successful shareCanvas of the same canvas
\* with the same user, what that call recorded: whether the user had a share,
\* and the user's checkCanvasPermission results before it
removeCanvasShare(ownerId, canvasId, targetUserId) ==
  /\ IF ~OwnedCanvas(canvas, ownerId, canvasId)
     THEN /\ last' = [op |-> "removeCanvasShare", userId |-> ownerId,
                      canvasId |-> canvasId, target |-> targetUserId,
                      code |-> "NOT_FOUND"]
          /\ UNCHANGED shares
     ELSE IF SharesOf(shares, canvasId, targetUserId) = {}
     THEN /\ last' = [op |-> "removeCanvasShare", userId |-> ownerId,
                      canvasId |-> canvasId, target |-> targetUserId,
                      code |-> "FAILED"]
          /\ UNCHANGED shares
     ELSE /\ shares' = DeleteShare(shares, canvasId, targetUserId)
          /\ last' = [op |-> "removeCanvasShare", userId |-> ownerId,
                      canvasId |-> canvasId, target |-> targetUserId, code |-> "OK",
                      prior |-> IF /\ last.op = "shareCanvas" /\ last.code = "OK"
                                   /\ last.canvasId = canvasId
                                   /\ last.target = targetUserId
                                THEN Some([hadShare |-> last.hadShare,
                                           before |-> last.before])
                                ELSE Undefined]
  /\ UNCHANGED <<canvas, issued, assets, saves, deleted, pending>>
  /\ UNCHANGED env

\* prisma.canvasShare.findMany({ where: { canvasId } }) mapped to CanvasShareData
CanvasShareData(sh, canvasId) ==
  {[canvasId |-> s.canvasId, userId |-> s.userId,
    permissionLevel |-> s.permissionLevel, sharedBy |-> s.sharedBy] :
     s \in {x \in sh : x.canvasId = canvasId}}

\* result: the CanvasShareData[] returned, Undefined when the call throws
getCanvasShares(ownerId, canvasId) ==
  /\ last' = IF ~OwnedCanvas(canvas, ownerId, canvasId)
             THEN [op |-> "getCanvasShares", userId |-> ownerId,
                   canvasId |-> canvasId, code |-> "NOT_FOUND",
                   result |-> Undefined]
             ELSE [op |-> "getCanvasShares", userId |-> ownerId,
                   canvasId |-> canvasId, code |-> "OK",
                   result |-> Some(CanvasShareData(shares, canvasId))]
  /\ UNCHANGED <<canvas, issued, shares, assets, saves, deleted, pending>>
  /\ UNCHANGED env

\* time passes between two calls
Tick ==
  /\ now < MaxClock
  /\ now' = now + 1
  /\ UNCHANGED <<canvas, issued, shares, assets, saves, deleted, pending, last,
                 r2, lookupDown, returned, client>>

\* mutant: the where clause has no { isPublic: true } branch
ListWhere_NoPublic(cv, sh, userId, includeShared) ==
  {c \in DOMAIN cv :
     IF includeShared
     THEN \/ cv[c].userId = userId
          \/ \E s \in sh : s.canvasId = c /\ s.userId = userId
     ELSE cv[c].userId = userId}

\* whereClause of listCanvases: the ids of the Canvas rows it selects
ListWhere(cv, sh, userId, includeShared) ==
  {c \in DOMAIN cv :
     IF includeShared
     THEN \/ cv[c].userId = userId
          \/ cv[c].isPublic
          \/ \E s \in sh : s.canvasId = c /\ s.userId = userId
     ELSE cv[c].userId = userId}

\* orderBy: { updatedAt: 'desc' }: the orders the database may return the rows
\* ids in (rows with equal updatedAt come in any order)
OrderedByUpdatedAtDesc(cv, ids) ==
  {f \in [1..Cardinality(ids) -> ids] :
     /\ \A i, j \in 1..Cardinality(ids) : i # j => f[i] # f[j]
     /\ \A i, j \in 1..Cardinality(ids) :
          i < j => cv[f[i]].updatedAt >= cv[f[j]].updatedAt}

\* skip: offset, take: limit
SkipTake(rows, offset, limit) ==
  SubSeq(rows, offset + 1,
         IF offset + limit < Len(rows) THEN offset + limit ELSE Len(rows))

\* the CanvasListItem made of a row and the caller's share on it
CanvasListItem(cv, sh, userId, c) ==
  LET mine == SharesOf(sh, c, userId)
      isOwner == cv[c].userId = userId IN
  [id |-> c, name |-> cv[c].name, isPublic |-> cv[c].isPublic,
   updatedAt |-> cv[c].updatedAt, version |-> cv[c].version,
   isOwner |-> isOwner,
   permission |-> IF mine # {} THEN (CHOOSE s \in mine : TRUE).permissionLevel
                  ELSE IF isOwner THEN "ADMIN" ELSE "VIEW"]

listCanvases(userId, page, limit, includeShared) ==
  /\ LET offset == (page - 1) * limit
         found == ListWhere(canvas, shares, userId, includeShared) IN
     \E rows \in OrderedByUpdatedAtDesc(canvas, found) :
       LET taken == SkipTake(rows, offset, limit) IN
       last' = [op |-> "listCanvases", userId |-> userId, page |-> page,
                limit |-> limit, includeShared |-> includeShared, code |-> "OK",
                canvases |-> [i \in 1..Len(taken) |->
                                CanvasListItem(canvas, shares, userId, taken[i])],
                totalCount |-> Cardinality(found)]
  /\ UNCHANGED <<canvas, issued, shares, assets, saves, deleted, pending>>
  /\ UNCHANGED env

\* the database starts or stops failing the findUnique of checkCanvasPermission
setLookupDown(down) ==
  /\ lookupDown # down
  /\ lookupDown' = down
  /\ UNCHANGED <<canvas, issued, shares, assets, saves, deleted, pending, last,
                 now, r2, returned, client>>

\* a direct call of the exported checkCanvasPermission (as the test script makes)
checkPermission(userId, canvasId, requiredLevel) ==
  /\ last' = [op |-> "checkCanvasPermission", userId |-> userId,
              canvasId |-> canvasId, level |-> requiredLevel, code |-> "OK",
              result |-> checkCanvasPermission(userId, canvasId, requiredLevel)]
  /\ UNCHANGED <<canvas, issued, shares, assets, saves, deleted, pending>>
  /\ UNCHANGED env

(***************************************************************************)
(* Asset service.                                                          *)
(***************************************************************************)
\* `canvases/${canvasId}/assets/${timestamp}_${random}_${sanitizedFileName}`
generateAssetKey(canvasId, n) == <<"canvases", canvasId, "assets", n>>

\* const allowedTypes = [ ... ]
allowedTypes ==
  {"image/jpeg", "image/jpg", "image/png", "image/gif", "image/svg+xml",
   "image/webp", "video/mp4", "video/webm", "video/quicktime"}

\* the file types a client sends: allowed ones, allowed ones in another case,
\* and ones that are not allowed in any case
FileTypes == {"image/png", "IMAGE/PNG", "Video/Mp4", "application/exe", "IMAGE/BMP"}

\* String.prototype.toLowerCase on the file types above
toLowerCase(fileType) ==
  CASE fileType = "IMAGE/PNG" -> "image/png"
    [] fileType = "Video/Mp4" -> "video/mp4"
    [] fileType = "IMAGE/BMP" -> "image/bmp"
    [] OTHER -> fileType

\* return allowedTypes.includes(fileType.toLowerCase())
validateFileType(fileType) == toLowerCase(fileType) \in allowedTypes

\* const maxSize = 10 * 1024 * 1024
maxSize == 10 * 1024 * 1024

\* mutant: the limit is one byte higher
validateFileSize_OneByteMore(fileSize) == fileSize <= maxSize + 1

\* return fileSize <= maxSize
validateFileSize(fileSize) == fileSize <= maxSize

\* the file sizes a client sends: a small file, the largest allowed, one byte more
FileSizes == {1024 * 100, maxSize, maxSize + 1}

\* the UploadRequest bodies the upload route passes on
UploadRequests ==
  [fileName : {"test-image.png"}, fileType : FileTypes, fileSize : FileSizes]

\* how the process is configured for R2: fully, without R2_PUBLIC_DOMAIN, or
\* without the variables r2Client is made from (r2Client is null)
R2Configs == {"configured", "noPublicDomain", "noClient"}

\* mutant: any share of the user passes the edit lookup
CanEditAssets_AnyShare(cv, sh, userId, canvasId) ==
  /\ canvasId \in DOMAIN cv
  /\ \/ cv[canvasId].userId = userId
     \/ SharesOf(sh, canvasId, userId) # {}

\* the inline lookup of requestAssetUpload and createAssetRecord:
\* id = canvasId and (owner, or some share of the user at EDIT or ADMIN)
CanEditAssets(cv, sh, userId, canvasId) ==
  /\ canvasId \in DOMAIN cv
  /\ \/ cv[canvasId].userId = userId
     \/ \E s \in SharesOf(sh, canvasId, userId) : s.permissionLevel \in {"EDIT", "ADMIN"}

\* n: the timestamp and random part of the key generateAssetKey makes
\* uploadUrl: the presigned URL returned, Undefined when the call throws
requestAssetUpload(userId, canvasId, uploadRequest, config, n) ==
  /\ LET result ==
           IF ~validateFileType(uploadRequest.fileType)
           THEN [code |-> "INVALID_FILE_TYPE", uploadUrl |-> Undefined]
           ELSE IF ~validateFileSize(uploadRequest.fileSize)
           THEN [code |-> "FILE_TOO_LARGE", uploadUrl |-> Undefined]
           ELSE IF ~CanEditAssets(canvas, shares, userId, canvasId)
           THEN [code |-> "PERMISSION_DENIED", uploadUrl |-> Undefined]
           ELSE IF config = "noPublicDomain"
           THEN [code |-> "CONFIG_ERROR", uploadUrl |-> Undefined]
           ELSE IF config = "noClient"
           THEN [code |-> "FAILED", uploadUrl |-> Undefined]
           ELSE [code |-> "OK",
                 uploadUrl |-> Some(<<"PUT", generateAssetKey(canvasId, n),
                                      uploadRequest.fileType,
                                      uploadRequest.fileSize>>)]
     IN last' = [op |-> "requestAssetUpload", userId |-> userId,
                 canvasId |-> canvasId, request |-> uploadRequest,
                 code |-> result.code, uploadUrl |-> result.uploadUrl]
  /\ UNCHANGED <<canvas, issued, shares, assets, saves, deleted, pending>>
  /\ UNCHANGED env

\* prisma.canvasAsset.create
NewAssetRow(id, request) ==
  [id |-> id, canvasId |-> request.canvasId, assetId |-> request.assetId,
   r2Key |-> request.r2Key]

\* the CreateAssetRequest of a client that recorded what requestAssetUpload gave it
AssetRequests ==
  {[canvasId |-> c, assetId |-> a, r2Key |-> generateAssetKey(c, 1)] :
     c \in RequestIds, a \in AssetIds}

\* mutant: no foreign key, the row is inserted whether or not the canvas exists
CreateAssetWrite_NoForeignKey(userId, request) ==
  /\ Cardinality(assets) < MaxAssets
  /\ LET id == CHOOSE r \in AssetRowIds : \A a \in assets : a.id # r IN
     assets' = assets \cup {NewAssetRow(id, request)}
  /\ last' = [op |-> "createAssetRecord", userId |-> userId,
              canvasId |-> request.canvasId, code |-> "OK"]

\* The create meets the foreign key CanvasAsset.canvasId -> Canvas.id: with the
\* canvas row gone it throws and the catch block rethrows an AssetError
\* without a code.
CreateAssetWrite(userId, request) ==
  IF request.canvasId \in DOMAIN canvas
  THEN /\ Cardinality(assets) < MaxAssets
       /\ LET id == CHOOSE r \in AssetRowIds : \A a \in assets : a.id # r IN
          assets' = assets \cup {NewAssetRow(id, request)}
       /\ last' = [op |-> "createAssetRecord", userId |-> userId,
                   canvasId |-> request.canvasId, code |-> "OK"]
  ELSE /\ last' = [op |-> "createAssetRecord", userId |-> userId,
                   canvasId |-> request.canvasId, code |-> "FAILED"]
       /\ UNCHANGED assets

CreateAssetDenied(userId, request) ==
  /\ last' = [op |-> "createAssetRecord", userId |-> userId,
              canvasId |-> request.canvasId, code |-> "PERMISSION_DENIED"]
  /\ UNCHANGED assets

createAssetRecord(userId, request) ==
  /\ IF ~CanEditAssets(canvas, shares, userId, request.canvasId)
     THEN CreateAssetDenied(userId, request)
     ELSE CreateAssetWrite(userId, request)
  /\ UNCHANGED <<canvas, issued, shares, saves, deleted, pending>>
  /\ UNCHANGED env

\* the inline lookup of getAssetByAssetId and listCanvasAssets:
\* id = canvasId and (owner, or public, or some share of the user)
CanViewAssets(cv, sh, userId, canvasId) ==
  /\ canvasId \in DOMAIN cv
  /\ \/ cv[canvasId].userId = userId
     \/ cv[canvasId].isPublic
     \/ SharesOf(sh, canvasId, userId) # {}

\* prisma.canvasAsset.findUnique({ where: { id: assetId } })
AssetRow(rows, assetId) == {a \in rows : a.id = assetId}

\* the client PUTs the file to the key of the presigned URL it was given
putObject(key) ==
  /\ r2' = r2 \cup {key}
  /\ UNCHANGED <<canvas, issued, shares, assets, saves, deleted, pending, last,
                 now, lookupDown, returned, client>>

\* r2Client.send(new DeleteObjectCommand({ Key })) that succeeds or throws
RemoteDelete(objects, key, remoteOk) == IF remoteOk THEN objects \ {key} ELSE objects

\* mutant: a failed remote delete ends the call, the row stays
DeleteAssetWrite_StopsOnRemoteFailure(userId, asset, remoteOk) ==
  /\ r2' = RemoteDelete(r2, asset.r2Key, remoteOk)
  /\ assets' = IF remoteOk THEN assets \ {asset} ELSE assets
  /\ last' = [op |-> "deleteAsset", userId |-> userId, assetId |-> asset.id,
              canvasId |-> asset.canvasId, code |-> IF remoteOk THEN "OK" ELSE "FAILED",
              remote |-> IF remoteOk THEN "deleted" ELSE "failed"]

\* the remote delete in its own try / catch, then prisma.canvasAsset.delete
DeleteAssetWrite(userId, asset, remoteOk) ==
  /\ r2' = RemoteDelete(r2, asset.r2Key, remoteOk)
  /\ assets' = assets \ {asset}
  /\ last' = [op |-> "deleteAsset", userId |-> userId, assetId |-> asset.id,
              canvasId |-> asset.canvasId, code |-> "OK",
              remote |-> IF remoteOk THEN "deleted" ELSE "failed"]

\* assetId: the id of the CanvasAsset row
\* remote: what became of the remote delete, "none" when it was not reached
deleteAsset(userId, assetId, remoteOk) ==
  /\ IF AssetRow(assets, assetId) = {}
     THEN /\ last' = [op |-> "deleteAsset", userId |-> userId, assetId |-> assetId,
                      canvasId |-> MissingCanvas, code |-> "NOT_FOUND",
                      remote |-> "none"]
          /\ UNCHANGED <<assets, r2>>
     ELSE LET asset == CHOOSE a \in AssetRow(assets, assetId) : TRUE
              isOwner == canvas[asset.canvasId].userId = userId
              hasEditPermission ==
                \E s \in SharesOf(shares, asset.canvasId, userId) :
                  s.permissionLevel \in {"EDIT", "ADMIN"} IN
          IF ~isOwner /\ ~hasEditPermission
          THEN /\ last' = [op |-> "deleteAsset", userId |-> userId,
                           assetId |-> assetId, canvasId |-> asset.canvasId,
                           code |-> "PERMISSION_DENIED", remote |-> "none"]
               /\ UNCHANGED <<assets, r2>>
          ELSE DeleteAssetWrite(userId, asset, remoteOk)
  /\ UNCHANGED <<canvas, issued, shares, saves, deleted, pending,
                 now, lookupDown, returned, client>>

\* result: the CanvasAssetData returned, Undefined for null
getAssetByAssetId(userId, canvasId, assetId) ==
  /\ LET found == {a \in assets : a.canvasId = canvasId /\ a.assetId = assetId} IN
     last' = IF ~CanViewAssets(canvas, shares, userId, canvasId) \/ found = {}
             THEN [op |-> "getAssetByAssetId", userId |-> userId,
                   canvasId |-> canvasId, assetId |-> assetId, code |-> "NULL",
                   result |-> Undefined]
             ELSE [op |-> "getAssetByAssetId", userId |-> userId,
                   canvasId |-> canvasId, assetId |-> assetId, code |-> "OK",
                   result |-> Some(CHOOSE a \in found : TRUE)]
  /\ UNCHANGED <<canvas, issued, shares, assets, saves, deleted, pending>>
  /\ UNCHANGED env

\* result: the rows returned, Undefined when the call throws
listCanvasAssets(userId, canvasId) ==
  /\ last' = IF ~CanViewAssets(canvas, shares, userId, canvasId)
             THEN [op |-> "listCanvasAssets", userId |-> userId,
                   canvasId |-> canvasId, code |-> "NOT_FOUND", result |-> Undefined]
             ELSE [op |-> "listCanvasAssets", userId |-> userId,
                   canvasId |-> canvasId, code |-> "OK",
                   result |-> Some({a \in assets : a.canvasId = canvasId})]
  /\ UNCHANGED <<canvas, issued, shares, assets, saves, deleted, pending>>
  /\ UNCHANGED env

\* downloadUrl: the presigned URL returned, Undefined when the call throws
getAssetDownloadUrl(userId, assetId, config) ==
  /\ IF AssetRow(assets, assetId) = {}
     THEN last' = [op |-> "getAssetDownloadUrl", userId |-> userId,
                   assetId |-> assetId, canvasId |-> MissingCanvas,
                   code |-> "NOT_FOUND", downloadUrl |-> Undefined]
     ELSE LET asset == CHOOSE a \in AssetRow(assets, assetId) : TRUE
              isOwner == canvas[asset.canvasId].userId = userId
              isPublic == canvas[asset.canvasId].isPublic
              hasAccess == SharesOf(shares, asset.canvasId, userId) # {} IN
          last' = IF ~isOwner /\ ~isPublic /\ ~hasAccess
                  THEN [op |-> "getAssetDownloadUrl", userId |-> userId,
                        assetId |-> assetId, canvasId |-> asset.canvasId,
                        code |-> "PERMISSION_DENIED", downloadUrl |-> Undefined]
                  ELSE IF config = "noClient"
                  THEN [op |-> "getAssetDownloadUrl", userId |-> userId,
                        assetId |-> assetId, canvasId |-> asset.canvasId,
                        code |-> "FAILED", downloadUrl |-> Undefined]
                  ELSE [op |-> "getAssetDownloadUrl", userId |-> userId,
                        assetId |-> assetId, canvasId |-> asset.canvasId,
                        code |-> "OK", downloadUrl |-> Some(<<"GET", asset.r2Key>>)]
  /\ UNCHANGED <<canvas, issued, shares, assets, saves, deleted, pending>>
  /\ UNCHANGED env

\* referencedAssetIds: the props.assetId of the records of documentData that
\* have one
referencedAssetIds(documentData) ==
  {documentData[k].props.assetId :
     k \in {x \in DOMAIN documentData :
              /\ "props" \in DOMAIN documentData[x]
              /\ "assetId" \in DOMAIN documentData[x].props}}

\* mutant: every row of the canvas is taken for an orphan
OrphanedAssets_EveryRow(cv, rows, canvasId) ==
  {a \in rows : a.canvasId = canvasId}

\* orphanedAssets: the rows of the canvas (include: { assets: true }) whose
\* assetId the document does not refer to
OrphanedAssets(cv, rows, canvasId) ==
  {a \in rows : /\ a.canvasId = canvasId
                /\ a.assetId \notin referencedAssetIds(cv[canvasId].documentData)}

\* mutant: the loop reads the document again and spares a row it now refers to
SweptRows_RechecksDocument(orphans, failing) ==
  {a \in orphans :
     /\ a.id \notin failing /\ a \in assets
     /\ a.assetId \notin referencedAssetIds(canvas[a.canvasId].documentData)}

\* the rows the loop deletes: for each orphan the remote delete, then the row
\* delete, in one try / catch; failing: the row ids whose remote delete
\* throws; a row that is gone makes prisma.canvasAsset.delete throw
SweptRows(orphans, failing) ==
  {a \in orphans : a.id \notin failing /\ a \in assets}

\* the loop over orphanedAssets and the return of deletedCount
CleanupSweep(canvasId, orphans, failing) ==
  /\ r2' = r2 \ {a.r2Key : a \in {o \in orphans : o.id \notin failing}}
  /\ assets' = assets \ SweptRows(orphans, failing)
  /\ last' = [op |-> "cleanupOrphanedAssets", canvasId |-> canvasId,
              code |-> "OK", deletedCount |-> Cardinality(SweptRows(orphans, failing)),
              orphans |-> orphans, failing |-> failing]

CleanupNotFound(canvasId) ==
  /\ last' = [op |-> "cleanupOrphanedAssets", canvasId |-> canvasId,
              code |-> "NOT_FOUND", deletedCount |-> 0,
              orphans |-> {}, failing |-> {}]
  /\ UNCHANGED <<assets, r2>>

\* the whole call with no other call between its lookup and its loop
cleanupOrphanedAssets(canvasId, failing) ==
  /\ IF canvasId \notin DOMAIN canvas
     THEN CleanupNotFound(canvasId)
     ELSE CleanupSweep(canvasId, OrphanedAssets(canvas, assets, canvasId), failing)
  /\ UNCHANGED <<canvas, issued, shares, saves, deleted, pending,
                 now, lookupDown, returned, client>>

(***************************************************************************)
(* Concurrent requests: a call's lookup and its write are separate steps,  *)
(* and other requests' steps run between them.                             *)
(***************************************************************************)
Start(request) ==
  /\ Cardinality(pending) < MaxPending
  /\ request \notin pending
  /\ pending' = pending \cup {request}
  /\ UNCHANGED last

\* deleteCanvas up to the return of its checkCanvasPermission
deleteCanvasLookup(userId, canvasId) ==
  /\ IF ~DeletePermission(userId, canvasId)
     THEN DeleteCanvasDenied(userId, canvasId) /\ UNCHANGED pending
     ELSE /\ Start([op |-> "deleteCanvas", userId |-> userId, canvasId |-> canvasId])
          /\ UNCHANGED <<canvas, shares, assets, deleted>>
  /\ UNCHANGED <<issued, saves>>
  /\ UNCHANGED env

\* shareCanvas up to the return of its findUnique
shareCanvasLookup(ownerId, canvasId, targetUserId, permissionLevel) ==
  /\ IF ~OwnedCanvas(canvas, ownerId, canvasId)
     THEN ShareCanvasNotFound(ownerId, canvasId, targetUserId) /\ UNCHANGED pending
     ELSE /\ Start([op |-> "shareCanvas", userId |-> ownerId, canvasId |-> canvasId,
                    target |-> targetUserId, permissionLevel |-> permissionLevel])
          /\ UNCHANGED shares
  /\ UNCHANGED <<canvas, issued, assets, saves, deleted>>
  /\ UNCHANGED env

\* createAssetRecord up to the return of its findFirst
createAssetLookup(userId, request) ==
  /\ IF ~CanEditAssets(canvas, shares, userId, request.canvasId)
     THEN CreateAssetDenied(userId, request) /\ UNCHANGED pending
     ELSE /\ Start([op |-> "createAssetRecord", userId |-> userId,
                    canvasId |-> request.canvasId, request |-> request])
          /\ UNCHANGED assets
  /\ UNCHANGED <<canvas, issued, shares, saves, deleted>>
  /\ UNCHANGED env

\* the rest of a started call: its write, and what it returns or throws
deleteCanvasFinish(r) ==
  /\ r \in pending /\ r.op = "deleteCanvas"
  /\ DeleteCanvasWrite(r.userId, r.canvasId)
  /\ pending' = pending \ {r}
  /\ UNCHANGED <<issued, saves>>
  /\ UNCHANGED env

shareCanvasFinish(r) ==
  /\ r \in pending /\ r.op = "shareCanvas"
  /\ ShareCanvasWrite(r.userId, r.canvasId, r.target, r.permissionLevel)
  /\ pending' = pending \ {r}
  /\ UNCHANGED <<canvas, issued, assets, saves, deleted>>
  /\ UNCHANGED env

createAssetFinish(r) ==
  /\ r \in pending /\ r.op = "createAssetRecord"
  /\ CreateAssetWrite(r.userId, r.request)
  /\ pending' = pending \ {r}
  /\ UNCHANGED <<canvas, issued, shares, saves, deleted>>
  /\ UNCHANGED env

\* removeCanvasShare up to the return of its findUnique
removeCanvasShareLookup(ownerId, canvasId, targetUserId) ==
  /\ IF ~OwnedCanvas(canvas, ownerId, canvasId)
     THEN /\ last' = [op |-> "removeCanvasShare", userId |-> ownerId,
                      canvasId |-> canvasId, target |-> targetUserId,
                      code |-> "NOT_FOUND"]
          /\ UNCHANGED pending
     ELSE Start([op |-> "removeCanvasShare", userId |-> ownerId,
                 canvasId |-> canvasId, target |-> targetUserId])
  /\ UNCHANGED <<canvas, issued, shares, assets, saves, deleted>>
  /\ UNCHANGED env

\* the prisma.canvasShare.delete of a started removeCanvasShare: it throws when
\* no row has the key
removeCanvasShareFinish(r) ==
  /\ r \in pending /\ r.op = "removeCanvasShare"
  /\ IF SharesOf(shares, r.canvasId, r.target) = {}
     THEN /\ last' = [op |-> "removeCanvasShare", userId |-> r.userId,
                      canvasId |-> r.canvasId, target |-> r.target,
                      code |-> "FAILED"]
          /\ UNCHANGED shares
     ELSE /\ shares' = DeleteShare(shares, r.canvasId, r.target)
          /\ last' = [op |-> "removeCanvasShare", userId |-> r.userId,
                      canvasId |-> r.canvasId, target |-> r.target,
                      code |-> "OK", prior |-> Undefined]
  /\ pending' = pending \ {r}
  /\ UNCHANGED <<canvas, issued, assets, saves, deleted>>
  /\ UNCHANGED env

\* cleanupOrphanedAssets up to the end of its filter: the rows it is about to
\* delete are fixed
cleanupLookup(canvasId) ==
  /\ IF canvasId \notin DOMAIN canvas
     THEN CleanupNotFound(canvasId) /\ UNCHANGED pending
     ELSE /\ Start([op |-> "cleanupOrphanedAssets", canvasId |-> canvasId,
                    orphans |-> OrphanedAssets(canvas, assets, canvasId)])
          /\ UNCHANGED <<assets, r2>>
  /\ UNCHANGED <<canvas, issued, shares, saves, deleted, now, lookupDown, returned, client>>

\* the loop of a started cleanupOrphanedAssets, over the rows it fixed
cleanupFinish(r, failing) ==
  /\ r \in pending /\ r.op = "cleanupOrphanedAssets"
  /\ CleanupSweep(r.canvasId, r.orphans, failing)
  /\ pending' = pending \ {r}
  /\ UNCHANGED <<canvas, issued, shares, saves, deleted, now, lookupDown, returned, client>>

\* the saveCanvas requests in flight on a canvas
PendingSaves(canvasId) ==
  {r \in pending : r.op = "saveCanvas" /\ r.canvasId = canvasId}

\* saveCanvas up to the return of its checkCanvasPermission; seen: the version
\* of the row the lookup read; slot tells apart requests with equal arguments
SaveCanvasCheck(userId, canvasId, req) ==
  /\ canvasId \in DOMAIN canvas =>
       canvas[canvasId].version + Cardinality(PendingSaves(canvasId)) < MaxVersion
  /\ IF ~SavePermission(userId, canvasId)
     THEN /\ last' = [op |-> "saveCanvas", userId |-> userId, canvasId |-> canvasId,
                      code |-> "PERMISSION_DENIED"]
          /\ UNCHANGED pending
     ELSE Start([op |-> "saveCanvas", userId |-> userId, canvasId |-> canvasId,
                 req |-> req, seen |-> canvas[canvasId].version,
                 slot |-> CHOOSE i \in 1..MaxPending :
                            /\ \A r \in pending : r.op = "saveCanvas" => r.slot # i
                            /\ \A j \in 1..(i - 1) :
                                 \E r \in pending : r.op = "saveCanvas" /\ r.slot = j])
  /\ UNCHANGED <<canvas, issued, shares, assets, saves, deleted>>

\* a saveCanvas call of the service up to the return of its check
saveCanvasLookup(userId, canvasId, req) ==
  /\ SaveCanvasCheck(userId, canvasId, req)
  /\ UNCHANGED env

\* mutant: the update writes the version the lookup read, plus one
SaveCanvasWrite_WritesSeenPlusOne(r) ==
  /\ canvas' = [canvas EXCEPT ![r.canvasId] =
                  [UpdatedCanvasRow(@, r.req) EXCEPT !.version = r.seen + 1]]
  /\ saves' = [saves EXCEPT ![r.canvasId] =
                 [n |-> @.n + 1, document |-> r.req.document]]
  /\ returned' = Append(returned, canvas'[r.canvasId].version)
  /\ last' = [op |-> "saveCanvas", userId |-> r.userId, canvasId |-> r.canvasId,
              code |-> "OK", version |-> canvas'[r.canvasId].version,
              document |-> r.req.document, seen |-> r.seen, dbOk |-> TRUE]

\* prisma.canvas.update with version: { increment: 1 }, one statement on the
\* row as it is when the statement runs; the call returns the row's new version
SaveCanvasWrite(r) ==
  /\ canvas' = [canvas EXCEPT ![r.canvasId] = UpdatedCanvasRow(@, r.req)]
  /\ saves' = [saves EXCEPT ![r.canvasId] =
                 [n |-> @.n + 1, document |-> r.req.document]]
  /\ returned' = Append(returned, canvas'[r.canvasId].version)
  /\ last' = [op |-> "saveCanvas", userId |-> r.userId, canvasId |-> r.canvasId,
              code |-> "OK", version |-> canvas'[r.canvasId].version,
              document |-> r.req.document, seen |-> r.seen, dbOk |-> TRUE]

\* the update of a started saveCanvas; dbOk = FALSE: the update throws
saveCanvasFinish(r, dbOk) ==
  /\ r \in pending /\ r.op = "saveCanvas"
  /\ IF ~dbOk \/ r.canvasId \notin DOMAIN canvas
     THEN /\ last' = [op |-> "saveCanvas", userId |-> r.userId,
                      canvasId |-> r.canvasId, code |-> "FAILED",
                      seen |-> r.seen, dbOk |-> dbOk]
          /\ UNCHANGED <<canvas, saves, returned>>
     ELSE SaveCanvasWrite(r)
  /\ pending' = pending \ {r}
  /\ UNCHANGED <<issued, shares, assets, deleted, now, r2, lookupDown, client>>

(***************************************************************************)
(* Route handlers.  A handler that returns before it calls the service     *)
(* leaves its response in last; one that calls the service leaves the      *)
(* service's outcome there, and HttpStatus is the status its return or its *)
(* catch block gives that outcome.  In a body "" is a field that is        *)
(* missing or empty (<< >> for a key), and session is session?.user?.id.   *)
(***************************************************************************)
\* return NextResponse.json({ error, code }, { status }) before any service call
Respond(route, session, status, code) ==
  /\ last' = [op |-> route, session |-> session, status |-> status, code |-> code]
  /\ UNCHANGED <<canvas, issued, shares, assets, saves, deleted, pending>>
  /\ UNCHANGED env

\* GET /api/canvas/[id]
GET_canvas(session, canvasId) ==
  IF session = Undefined
  THEN Respond("GET /api/canvas/[id]", session, 401, "UNAUTHORIZED")
  ELSE IF canvasId = ""
  THEN Respond("GET /api/canvas/[id]", session, 400, "VALIDATION_ERROR")
  ELSE loadCanvas(TheValue(session), canvasId)

\* PUT /api/canvas/[id]; parses = FALSE: request.json() throws on the body
PUT_canvas(session, canvasId, parses, body, dbOk) ==
  IF session = Undefined
  THEN Respond("PUT /api/canvas/[id]", session, 401, "UNAUTHORIZED")
  ELSE IF canvasId = ""
  THEN Respond("PUT /api/canvas/[id]", session, 400, "VALIDATION_ERROR")
  ELSE IF ~parses
  THEN Respond("PUT /api/canvas/[id]", session, 500, "SYNTAX_ERROR")
  ELSE IF body.document = Undefined
  THEN Respond("PUT /api/canvas/[id]", session, 400, "VALIDATION_ERROR")
  ELSE saveCanvas(TheValue(session), canvasId,
                  [body EXCEPT !.document = TheValue(@)], dbOk)

\* DELETE /api/canvas/[id]
DELETE_canvas(session, canvasId) ==
  IF session = Undefined
  THEN Respond("DELETE /api/canvas/[id]", session, 401, "UNAUTHORIZED")
  ELSE IF canvasId = ""
  THEN Respond("DELETE /api/canvas/[id]", session, 400, "VALIDATION_ERROR")
  ELSE deleteCanvas(TheValue(session), canvasId)

\* the canvas ids the editor uses for a canvas that is not stored on the server
LocalCanvasIds == {"local", "anonymous"}

\* POST /api/assets/upload: the body is validated first, and a session is
\* asked for only when the canvas is not a local one
POST_assets_upload(session, body, config, n) ==
  IF body.canvasId = "" \/ body.fileName = "" \/ body.fileType = ""
     \/ body.fileSize <= 0
  THEN Respond("POST /api/assets/upload", session, 400, "VALIDATION_ERROR")
  ELSE IF body.canvasId \notin LocalCanvasIds /\ session = Undefined
  THEN Respond("POST /api/assets/upload", session, 401, "UNAUTHORIZED")
  ELSE requestAssetUpload(
         IF body.canvasId \in LocalCanvasIds THEN "anonymous" ELSE TheValue(session),
         body.canvasId,
         [fileName |-> body.fileName, fileType |-> body.fileType,
          fileSize |-> body.fileSize],
         config, n)

\* POST /api/assets
POST_assets(session, body) ==
  IF session = Undefined
  THEN Respond("POST /api/assets", session, 401, "UNAUTHORIZED")
  ELSE IF body.canvasId = "" \/ body.assetId = "" \/ body.r2Key = << >>
  THEN Respond("POST /api/assets", session, 400, "VALIDATION_ERROR")
  ELSE createAssetRecord(TheValue(session), body)

\* DELETE /api/assets/[id]
DELETE_asset(session, assetId, remoteOk) ==
  IF session = Undefined
  THEN Respond("DELETE /api/assets/[id]", session, 401, "UNAUTHORIZED")
  ELSE IF assetId = ""
  THEN Respond("DELETE /api/assets/[id]", session, 400, "VALIDATION_ERROR")
  ELSE deleteAsset(TheValue(session), assetId, remoteOk)

\* AssetError code -> status in the catch block of POST /api/assets/upload
uploadErrorStatus(code) ==
  IF code = "PERMISSION_DENIED" THEN 403
  ELSE IF code = "INVALID_FILE_TYPE" THEN 400
  ELSE IF code = "FILE_TOO_LARGE" THEN 413
  ELSE IF code = "CONFIG_ERROR" THEN 500 ELSE 400

\* AssetError code -> status in the catch block of POST /api/assets
createAssetErrorStatus(code) == IF code = "PERMISSION_DENIED" THEN 403 ELSE 400

\* AssetError code -> status in the catch blocks of /api/assets/[id]
assetErrorStatus(code) ==
  IF code = "NOT_FOUND" THEN 404
  ELSE IF code = "PERMISSION_DENIED" THEN 403 ELSE 400

\* the status of the response a handler builds from the outcome l of its
\* request: "FAILED" is the service's error without a code
HttpStatus(l) ==
  IF "status" \in DOMAIN l THEN l.status
  ELSE CASE l.op \in {"loadCanvas", "saveCanvas", "deleteCanvas"} ->
              IF l.code = "OK" THEN 200 ELSE canvasErrorStatus(l.code)
         [] l.op = "requestAssetUpload" ->
              IF l.code = "OK" THEN 200 ELSE uploadErrorStatus(l.code)
         [] l.op = "createAssetRecord" ->
              IF l.code = "OK" THEN 201 ELSE createAssetErrorStatus(l.code)
         [] l.op = "deleteAsset" ->
              IF l.code = "OK" THEN 200 ELSE assetErrorStatus(l.code)

\* POST /api/r2/upload: the handler reads the file out of the form data into
\* a buffer and sends it to the bucket itself; timestamp: Date.now();
\* received: the file content the handler read, Undefined when it read none
POST_r2_upload(session, file, config, timestamp) ==
  /\ IF session = Undefined
     THEN /\ last' = [op |-> "POST /api/r2/upload", session |-> session,
                      status |-> 401, code |-> "UNAUTHORIZED", received |-> Undefined]
          /\ UNCHANGED r2
     ELSE IF file = Undefined
     THEN /\ last' = [op |-> "POST /api/r2/upload", session |-> session,
                      status |-> 400, code |-> "VALIDATION_ERROR",
                      received |-> Undefined]
          /\ UNCHANGED r2
     ELSE IF config = "noClient"
     THEN /\ last' = [op |-> "POST /api/r2/upload", session |-> session,
                      status |-> 500, code |-> "FAILED", received |-> file]
          /\ UNCHANGED r2
     ELSE /\ last' = [op |-> "POST /api/r2/upload", session |-> session,
                      status |-> 200, code |-> "OK", received |-> file]
          /\ r2' = r2 \cup {<<"test-uploads", timestamp, TheValue(file).name>>}
  /\ UNCHANGED <<canvas, issued, shares, assets, saves, deleted, pending,
                 now, lookupDown, returned, client>>

\* the client PUTs the file to the presigned URL of the response it just got
putToPresignedUrl ==
  /\ last.op = "requestAssetUpload" /\ last.code = "OK"
  /\ putObject(TheValue(last.uploadUrl)[2])

(***************************************************************************)
(* Route-protection middleware.  A pathname is the sequence of its "/"s    *)
(* and the words between them, so that String.prototype.startsWith is the  *)
(* prefix relation on sequences.                                           *)
(***************************************************************************)
\* pathname.startsWith(route)
startsWith(pathname, route) ==
  /\ Len(route) <= Len(pathname)
  /\ SubSeq(pathname, 1, Len(route)) = route

SignIn == <<"/", "auth", "/", "signin">>
Register == <<"/", "auth", "/", "register">>
Dashboard == <<"/", "dashboard">>

\* const publicRoutes = ['/auth/signin', '/auth/register', '/']
publicRoutes == {SignIn, Register, <<"/">>}

\* the value the auth callback of src/middleware.ts returns
middlewareResult(auth, pathname) ==
  LET isPublicRoute == \E route \in publicRoutes : startsWith(pathname, route) IN
  IF auth = Undefined /\ ~isPublicRoute THEN [redirect |-> SignIn]
  ELSE IF auth # Undefined /\ startsWith(pathname, <<"/", "auth">>)
  THEN [redirect |-> Dashboard]
  ELSE [next |-> TRUE]

\* the later version of the callback: more public routes, the NextAuth routes
\* let through, and the auth pages compared by equality
publicRoutes_2 ==
  {<<"/">>, SignIn, Register, <<"/", "api", "/", "auth", "/", "register">>,
   <<"/", "debug">>}

middlewareResult_2(auth, pathname) ==
  LET isPublicRoute ==
        \E route \in publicRoutes_2 : pathname = route \/ startsWith(pathname, route) IN
  IF startsWith(pathname, <<"/", "api", "/", "auth", "/">>) THEN [next |-> TRUE]
  ELSE IF auth = Undefined /\ ~isPublicRoute THEN [redirect |-> SignIn]
  ELSE IF auth # Undefined /\ (pathname = SignIn \/ pathname = Register)
  THEN [redirect |-> Dashboard]
  ELSE [next |-> TRUE]

\* one request through the middleware; version 1 is src/middleware.ts
middleware(version, auth, pathname) ==
  /\ last' = [op |-> "middleware", version |-> version, auth |-> auth,
              pathname |-> pathname, code |-> "OK",
              result |-> IF version = 1 THEN middlewareResult(auth, pathname)
                         ELSE middlewareResult_2(auth, pathname)]
  /\ UNCHANGED <<canvas, issued, shares, assets, saves, deleted, pending>>
  /\ UNCHANGED env

(***************************************************************************)
(* The client: the auto-save effect of TldrawWrapper on a server canvas.   *)
(* Timers run on time: the clock does not pass a timer that is due.        *)
(***************************************************************************)
\* setTimeout(..., 1000): the debounce delay in ms
DebounceMs == 1000
\* the clock advances in steps of half the delay
TickMs == DebounceMs \div 2
\* the user whose session the browser holds, and the canvas of the page
ClientUser == "u1"
ClientCanvas == "c1"

\* mutant: clearTimeout leaves the timer pending
clearTimeout_KeepsTimer(pendingTimers, id) == pendingTimers

\* clearTimeout(id): an id that is unset or no longer pending clears nothing
clearTimeout(pendingTimers, id) == {t \in pendingTimers : t.id # id}

\* setTimeout(callback, delay): the pending timers with the new one
setTimeout(pendingTimers, id, delay) ==
  pendingTimers \cup {[id |-> id, due |-> clock + delay]}

\* onMount={handleMount}: setEditor(mountedEditor), and the auto-save effect
\* subscribes its listener to the store
handleMount ==
  /\ editor = "null"
  /\ editor' = "mounted"
  /\ UNCHANGED <<timeoutId, timers, clock, store, changes, fired>>
  /\ UNCHANGED <<canvas, issued, shares, assets, saves, deleted, pending, last,
                 now, r2, lookupDown, returned>>

\* the user changes the document to d and the store calls the listener:
\* clearTimeout(timeoutId); timeoutId = setTimeout(() => saveCanvas(), 1000)
storeChange(d) ==
  /\ editor = "mounted"
  /\ d # store
  /\ Len(changes) < MaxChanges
  /\ store' = d
  /\ timers' = setTimeout(clearTimeout(timers, timeoutId), Len(changes) + 1, DebounceMs)
  /\ timeoutId' = Len(changes) + 1
  /\ changes' = Append(changes, clock)
  /\ UNCHANGED <<editor, clock, fired>>
  /\ UNCHANGED <<canvas, issued, shares, assets, saves, deleted, pending, last,
                 now, r2, lookupDown, returned>>

\* time passes
advanceClock ==
  /\ clock < MaxTicks * TickMs
  /\ \A t \in timers : t.due > clock
  /\ clock' = clock + TickMs
  /\ UNCHANGED <<editor, timeoutId, timers, store, changes, fired>>
  /\ UNCHANGED <<canvas, issued, shares, assets, saves, deleted, pending, last,
                 now, r2, lookupDown, returned>>

\* mutant: the body carries the empty document the editor was mounted with
ClientSaveRequest_MountSnapshot ==
  [document |-> EmptyDoc, session |-> Undefined,
   name |-> Undefined, description |-> Undefined]

\* const snapshot = editor.store.getSnapshot();
\* body: JSON.stringify({ document: snapshot })
ClientSaveRequest ==
  [document |-> store, session |-> Undefined,
   name |-> Undefined, description |-> Undefined]

\* a due timer runs its callback: saveCanvas() takes the snapshot of the store
\* and sends PUT /api/canvas/[id], which the server takes up to the return of
\* saveCanvas's permission check
timerFires(t) ==
  /\ t \in timers /\ t.due <= clock
  /\ timers' = timers \ {t}
  /\ fired' = Append(fired, [at |-> clock,
                             inFlight |-> Cardinality(PendingSaves(ClientCanvas))])
  /\ SaveCanvasCheck(ClientUser, ClientCanvas, ClientSaveRequest)
  /\ UNCHANGED <<editor, timeoutId, clock, store, changes>>
  /\ UNCHANGED <<now, r2, lookupDown, returned>>

\* the cleanup of the auto-save effect: unsubscribe(); clearTimeout(timeoutId)
unmount ==
  /\ editor = "mounted"
  /\ editor' = "unmounted"
  /\ timers' = clearTimeout(timers, timeoutId)
  /\ UNCHANGED <<timeoutId, clock, store, changes, fired>>
  /\ UNCHANGED <<canvas, issued, shares, assets, saves, deleted, pending, last,
                 now, r2, lookupDown, returned>>

\* uploadData.<name> of a parsed response: undefined when the data has no such field
FieldOf(data, name) == IF name \in DOMAIN data THEN Some(data[name]) ELSE Undefined

\* { uploadUrl, publicUrl, key }: the data of a successful upload response
UploadData(uploadUrl) ==
  [uploadUrl |-> uploadUrl, publicUrl |-> <<"https", uploadUrl[2]>>,
   key |-> uploadUrl[2]]

\* uploadFileToR2 of TldrawWrapper (and uploadToR2 of TldrawAssetHandler) from
\* the response to its upload request on: it POSTs the file as form data to
\* uploadData.url and returns uploadData.publicUrl; postOk: the response to
\* that POST is ok; sentTo: the URL the file was sent to, result: the URL
\* returned, Undefined when the function throws
uploadFileToR2(postOk) ==
  /\ last.op \in {"requestAssetUpload", "POST /api/assets/upload"}
  /\ IF HttpStatus(last) # 200
     THEN last' = [op |-> "uploadFileToR2", code |-> "FAILED", step |-> 1,
                   presigned |-> Undefined, sentTo |-> Undefined,
                   result |-> Undefined]
     ELSE LET uploadData == UploadData(TheValue(last.uploadUrl)) IN
          last' = [op |-> "uploadFileToR2",
                   code |-> IF postOk THEN "OK" ELSE "FAILED", step |-> 2,
                   presigned |-> Some(uploadData.uploadUrl),
                   sentTo |-> FieldOf(uploadData, "url"),
                   result |-> IF postOk THEN FieldOf(uploadData, "publicUrl")
                              ELSE Undefined]
  /\ UNCHANGED <<canvas, issued, shares, assets, saves, deleted, pending>>
  /\ UNCHANGED env

(***************************************************************************)
(* Specifications.  Each runs the calls of one area of the service with    *)
(* the requests drawn from the sets named here.                            *)
(***************************************************************************)
\* two users, each the creator of one canvas and a stranger to the other's
TwoUsers == {"u1", "u2"}
Creations == {<<"u1", "c1">>, <<"u2", "c2">>}
\* the ids the calls of a one-canvas run address: the canvas and a missing one
OneCanvas == {"c1"}
OneRequestIds == OneCanvas \cup {MissingCanvas}

\* sharing and the permission evaluator, one call at a time
NextShare ==
  \/ \E x \in Creations, p \in BOOLEAN : createCanvas(x[1], p, x[2])
  \/ \E o \in TwoUsers, c \in RequestIds, t \in TwoUsers, l \in Levels :
       shareCanvas(o, c, t, l)
  \/ \E o \in TwoUsers, c \in RequestIds, t \in TwoUsers : removeCanvasShare(o, c, t)
  \/ \E u \in TwoUsers, c \in RequestIds, l \in Levels : checkPermission(u, c, l)
  \/ \E o \in TwoUsers, c \in RequestIds : getCanvasShares(o, c)

SpecShare == Init /\ [][NextShare]_vars

\* saving and loading one canvas, one call at a time
NextSave ==
  \/ \E u \in Users, p \in BOOLEAN, id \in OneCanvas : createCanvas(u, p, id)
  \/ \E o \in Users, c \in OneRequestIds, l \in Levels :
       \E t \in Users \ {o} : shareCanvas(o, c, t, l)
  \/ \E u \in Users, c \in OneRequestIds, r \in SaveRequests, ok \in BOOLEAN :
       saveCanvas(u, c, r, ok)
  \/ \E u \in Users, c \in OneRequestIds : loadCanvas(u, c)

SpecSave == Init /\ [][NextSave]_vars

\* deleting, with the rows the delete cascades to, one call at a time
NextDelete ==
  \/ \E x \in Creations, p \in BOOLEAN : createCanvas(x[1], p, x[2])
  \/ \E o \in TwoUsers, c \in RequestIds, l \in Levels :
       \E t \in TwoUsers \ {o} : shareCanvas(o, c, t, l)
  \/ \E u \in TwoUsers, r \in AssetRequests : createAssetRecord(u, r)
  \/ \E u \in TwoUsers, c \in RequestIds : deleteCanvas(u, c)

SpecDelete == Init /\ [][NextDelete]_vars

\* deleting while shareCanvas and createAssetRecord requests are in flight
NextConc ==
  \/ \E u \in TwoUsers, p \in BOOLEAN, id \in OneCanvas : createCanvas(u, p, id)
  \/ \E u \in TwoUsers, c \in OneRequestIds : deleteCanvasLookup(u, c)
  \/ \E o \in TwoUsers, c \in OneRequestIds, t \in TwoUsers, l \in Levels :
       shareCanvasLookup(o, c, t, l)
  \/ \E u \in TwoUsers, r \in {x \in AssetRequests : x.canvasId \in OneRequestIds} :
       createAssetLookup(u, r)
  \/ \E r \in pending : deleteCanvasFinish(r)
  \/ \E r \in pending : shareCanvasFinish(r)
  \/ \E r \in pending : createAssetFinish(r)

SpecConc == Init /\ [][NextConc]_vars

\* shareCanvas and removeCanvasShare requests in flight together
NextShareConc ==
  \/ \E u \in TwoUsers, p \in BOOLEAN, id \in OneCanvas : createCanvas(u, p, id)
  \/ \E o \in TwoUsers, c \in OneRequestIds, t \in TwoUsers, l \in Levels :
       shareCanvasLookup(o, c, t, l)
  \/ \E o \in TwoUsers, c \in OneRequestIds, t \in TwoUsers :
       removeCanvasShareLookup(o, c, t)
  \/ \E r \in pending : shareCanvasFinish(r)
  \/ \E r \in pending : removeCanvasShareFinish(r)

SpecShareConc == Init /\ [][NextShareConc]_vars

\* listing, with canvases created at different times, saved once at a later
\* time and shared with the other user
NextList ==
  \/ \E x \in Creations, p \in BOOLEAN : createCanvas(x[1], p, x[2])
  \/ \E x \in Creations : \E t \in TwoUsers \ {x[1]} :
       shareCanvas(x[1], x[2], t, "VIEW")
  \/ \E x \in Creations, r \in {y \in SaveRequests : y.document = DocShape} :
       /\ x[2] \in DOMAIN canvas
       /\ canvas[x[2]].version = 1
       /\ saveCanvas(x[1], x[2], r, TRUE)
  \/ Tick
  \/ \E u \in TwoUsers, page \in 1..MaxPage, limit \in 1..MaxLimit,
        includeShared \in BOOLEAN : listCanvases(u, page, limit, includeShared)

SpecList == Init /\ [][NextList]_vars

\* listing by users who hold share rows of any level, their own canvases included
NextListShared ==
  \/ \E x \in Creations, p \in BOOLEAN : createCanvas(x[1], p, x[2])
  \/ \E o \in TwoUsers, c \in RequestIds, t \in TwoUsers, l \in Levels :
       shareCanvas(o, c, t, l)
  \/ \E u \in TwoUsers, includeShared \in BOOLEAN :
       listCanvases(u, 1, MaxLimit, includeShared)

SpecListShared == Init /\ [][NextListShared]_vars

\* upload requests of every file type and size, by owners, sharers and strangers
NextUpload ==
  \/ \E u \in TwoUsers, p \in BOOLEAN, id \in OneCanvas : createCanvas(u, p, id)
  \/ \E o \in TwoUsers, c \in OneRequestIds, t \in TwoUsers, l \in Levels :
       shareCanvas(o, c, t, l)
  \/ \E u \in TwoUsers, c \in OneRequestIds, q \in UploadRequests,
        config \in R2Configs, n \in 1..MaxAssets :
       requestAssetUpload(u, c, q, config, n)

SpecUpload == Init /\ [][NextUpload]_vars

\* the upload a client of the test script asks for
ValidUpload ==
  [fileName |-> "test-image.png", fileType |-> "image/png", fileSize |-> 1024 * 100]

\* the asset service on one canvas, one call at a time
NextAsset ==
  \/ \E u \in TwoUsers, p \in BOOLEAN, id \in OneCanvas : createCanvas(u, p, id)
  \/ \E o \in TwoUsers, c \in OneCanvas, t \in TwoUsers, l \in Levels :
       shareCanvas(o, c, t, l)
  \/ \E u \in TwoUsers, c \in OneRequestIds :
       requestAssetUpload(u, c, ValidUpload, "configured", 1)
  \/ \E c \in OneCanvas : putObject(generateAssetKey(c, 1))
  \/ \E u \in TwoUsers, r \in {x \in AssetRequests : x.canvasId \in OneRequestIds} :
       createAssetRecord(u, r)
  \/ \E u \in TwoUsers, a \in AssetRowIds, ok \in BOOLEAN : deleteAsset(u, a, ok)
  \/ \E u \in TwoUsers, c \in OneRequestIds, a \in AssetIds :
       getAssetByAssetId(u, c, a)
  \/ \E u \in TwoUsers, c \in OneRequestIds : listCanvasAssets(u, c)
  \/ \E u \in TwoUsers, a \in AssetRowIds, config \in {"configured", "noClient"} :
       getAssetDownloadUrl(u, a, config)

SpecAsset == Init /\ [][NextAsset]_vars

\* the assets a cleanup run meets: two assets per canvas, each under its own key
CleanupAssetIds == {"asset:1", "asset:2"}
AssetNumber(assetId) == IF assetId = "asset:1" THEN 1 ELSE 2
CleanupRequests ==
  {[canvasId |-> c, assetId |-> a, r2Key |-> generateAssetKey(c, AssetNumber(a))] :
     c \in OneCanvas, a \in CleanupAssetIds}
\* saves of a document that refers to asset:1 and of one that refers to none
CleanupSaves ==
  {[document |-> d, session |-> Undefined, name |-> Undefined,
    description |-> Undefined] : d \in {DocShape, DocImage}}

\* cleanup of a canvas whose assets are uploaded, recorded and referred to by
\* saved documents, one call at a time
NextCleanup ==
  \/ \E u \in TwoUsers, id \in OneCanvas : createCanvas(u, FALSE, id)
  \/ \E r \in CleanupRequests : putObject(r.r2Key)
  \/ \E u \in TwoUsers, r \in CleanupRequests : createAssetRecord(u, r)
  \/ \E u \in TwoUsers, c \in OneCanvas, r \in CleanupSaves : saveCanvas(u, c, r, TRUE)
  \/ \E c \in OneRequestIds, failing \in SUBSET AssetRowIds :
       cleanupOrphanedAssets(c, failing)

SpecCleanup == Init /\ [][NextCleanup]_vars

\* one cleanup with saves and asset records between its lookup and its loop
NextCleanupConc ==
  \/ \E u \in TwoUsers, id \in OneCanvas : createCanvas(u, FALSE, id)
  \/ \E r \in CleanupRequests : putObject(r.r2Key)
  \/ \E u \in TwoUsers, r \in CleanupRequests : createAssetRecord(u, r)
  \/ \E u \in TwoUsers, c \in OneCanvas, r \in CleanupSaves : saveCanvas(u, c, r, TRUE)
  \/ \E c \in OneRequestIds : pending = {} /\ cleanupLookup(c)
  \/ \E r \in pending, failing \in SUBSET AssetRowIds : cleanupFinish(r, failing)

SpecCleanupConc == Init /\ [][NextCleanupConc]_vars

\* the CreateAssetRequest bodies a client can send: the r2Key is the client's
\* choice, the key of any canvas
KeyRequests ==
  {[canvasId |-> c, assetId |-> a, r2Key |-> generateAssetKey(k, 1)] :
     c \in CanvasIds, k \in CanvasIds, a \in AssetIds}

\* two owners, each with a canvas and its uploaded object, recording and
\* deleting assets under keys of their choice
NextAssetKeys ==
  \/ \E x \in Creations : createCanvas(x[1], FALSE, x[2])
  \/ \E x \in Creations : requestAssetUpload(x[1], x[2], ValidUpload, "configured", 1)
  \/ putToPresignedUrl
  \/ \E u \in TwoUsers, r \in KeyRequests : createAssetRecord(u, r)
  \/ \E u \in TwoUsers, a \in AssetRowIds, ok \in BOOLEAN : deleteAsset(u, a, ok)
  \/ \E c \in CanvasIds : cleanupOrphanedAssets(c, {})

SpecAssetKeys == Init /\ [][NextAssetKeys]_vars

\* saveCanvas requests on one canvas in flight together
NextSaveConc ==
  \/ \E u \in TwoUsers, p \in BOOLEAN, id \in OneCanvas : createCanvas(u, p, id)
  \/ \E o \in TwoUsers, c \in OneCanvas, t \in TwoUsers, l \in Levels :
       shareCanvas(o, c, t, l)
  \/ \E u \in TwoUsers, c \in OneRequestIds, r \in SaveRequests :
       saveCanvasLookup(u, c, r)
  \/ \E r \in pending, ok \in BOOLEAN : saveCanvasFinish(r, ok)

SpecSaveConc == Init /\ [][NextSaveConc]_vars

\* saveCanvas requests in flight while the owner shares, lowers and revokes
NextSaveRevoke ==
  \/ \E u \in TwoUsers, id \in OneCanvas : createCanvas(u, FALSE, id)
  \/ \E o \in TwoUsers, c \in OneCanvas, l \in Levels :
       \E t \in TwoUsers \ {o} : shareCanvas(o, c, t, l)
  \/ \E o \in TwoUsers, c \in OneCanvas :
       \E t \in TwoUsers \ {o} : removeCanvasShare(o, c, t)
  \/ \E u \in TwoUsers, c \in OneRequestIds, r \in SaveRequests :
       saveCanvasLookup(u, c, r)
  \/ \E r \in pending, ok \in BOOLEAN : saveCanvasFinish(r, ok)

SpecSaveRevoke == Init /\ [][NextSaveRevoke]_vars

\* the calls that go through checkCanvasPermission, while its lookup works and
\* while it throws
NextFault ==
  \/ \E u \in TwoUsers, p \in BOOLEAN, id \in OneCanvas : createCanvas(u, p, id)
  \/ \E o \in TwoUsers, c \in OneCanvas, t \in TwoUsers, l \in Levels :
       shareCanvas(o, c, t, l)
  \/ \E down \in BOOLEAN : setLookupDown(down)
  \/ \E u \in TwoUsers, c \in OneRequestIds, l \in Levels : checkPermission(u, c, l)
  \/ \E u \in TwoUsers, c \in OneRequestIds : loadCanvas(u, c)
  \/ \E u \in TwoUsers, c \in OneRequestIds, r \in SaveRequests, ok \in BOOLEAN :
       saveCanvas(u, c, r, ok)
  \/ \E u \in TwoUsers, c \in OneRequestIds : deleteCanvas(u, c)

SpecFault == Init /\ [][NextFault]_vars

\* the requests the route handlers are sent: with and without a session, with
\* fields missing, with bodies that do not parse, for stored and local canvases
Sessions == {Undefined} \cup {Some(u) : u \in TwoUsers}
HttpCanvasIds == OneRequestIds \cup {""}
PutBodies ==
  [document : {Undefined, Some(DocShape)}, session : {Undefined},
   name : {Undefined}, description : {Undefined}]
UploadBodies ==
  [canvasId : OneCanvas \cup {"", "local"}, fileName : {"test-image.png"},
   fileType : {"", "image/png", "application/exe"},
   fileSize : {0, 1024 * 100, maxSize + 1}]
AssetBodies ==
  [canvasId : OneCanvas, assetId : AssetIds \cup {""},
   r2Key : {generateAssetKey(c, 1) : c \in OneCanvas} \cup {<< >>}]

\* the route handlers of one canvas and its assets, one request at a time
NextHttp ==
  \/ \E u \in TwoUsers, p \in BOOLEAN, id \in OneCanvas : createCanvas(u, p, id)
  \/ \E s \in Sessions, c \in HttpCanvasIds : GET_canvas(s, c)
  \/ \E s \in Sessions, c \in HttpCanvasIds, parses \in BOOLEAN, b \in PutBodies,
        ok \in BOOLEAN : PUT_canvas(s, c, parses, b, ok)
  \/ \E s \in Sessions, c \in HttpCanvasIds : DELETE_canvas(s, c)
  \/ \E s \in Sessions, b \in UploadBodies, config \in R2Configs :
       POST_assets_upload(s, b, config, 1)
  \/ \E s \in Sessions, b \in AssetBodies : POST_assets(s, b)
  \/ \E s \in Sessions, a \in AssetRowIds \cup {""}, ok \in BOOLEAN :
       DELETE_asset(s, a, ok)

SpecHttp == Init /\ [][NextHttp]_vars

\* the pathnames requested: "/", "/<word>" and "/<word>/<word>"
PathWords ==
  {"dashboard", "admin", "r2-test", "canvas", "c1", "auth", "signin", "register",
   "debug"}
Pathnames ==
  {<<"/">>} \cup {<<"/", a>> : a \in PathWords}
            \cup {<<"/", a, "/", b>> : a \in PathWords, b \in PathWords}

\* requests with and without a session through either version of the middleware
NextMiddleware ==
  \E version \in {1, 2}, auth \in Sessions, pathname \in Pathnames :
    middleware(version, auth, pathname)

SpecMiddleware == Init /\ [][NextMiddleware]_vars

\* the files a client uploads: name and content
Files == [name : {"a.png", "b.png"}, bytes : {"bytes:1"}]

\* uploads through presigned URLs and through the upload route of the R2 test page
NextBinary ==
  \/ \E u \in TwoUsers, id \in OneCanvas : createCanvas(u, FALSE, id)
  \/ \E s \in Sessions, c \in OneRequestIds, n \in 1..MaxAssets :
       POST_assets_upload(s, [ValidUpload EXCEPT !.fileName = "a.png"] @@
                             [canvasId |-> c], "configured", n)
  \/ putToPresignedUrl
  \/ \E s \in Sessions, f \in {Undefined} \cup {Some(x) : x \in Files},
        config \in {"configured", "noClient"}, ts \in 1..MaxAssets :
       POST_r2_upload(s, f, config, ts)

SpecBinary == Init /\ [][NextBinary]_vars

\* the upload flow of the client for a dropped file, next to the requests a
\* client can send to the asset routes
NextUploadFlow ==
  \/ \E u \in TwoUsers, id \in OneCanvas : createCanvas(u, FALSE, id)
  \/ \E s \in Sessions, c \in OneRequestIds \cup {"anonymous"},
        size \in {1024 * 100, maxSize + 1} :
       POST_assets_upload(s, [ValidUpload EXCEPT !.fileSize = size] @@
                             [canvasId |-> c], "configured", 1)
  \/ \E postOk \in BOOLEAN : uploadFileToR2(postOk)
  \/ putToPresignedUrl
  \/ \E s \in Sessions, b \in AssetBodies : POST_assets(s, b)

SpecUploadFlow == Init /\ [][NextUploadFlow]_vars

\* the documents the user edits the canvas to
ClientDocs == {EmptyDoc, DocShape, DocImage}

\* one browser editing the canvas of its user, and the server answering its
\* save requests in any order
NextClient ==
  \/ createCanvas(ClientUser, FALSE, ClientCanvas)
  \/ handleMount
  \/ \E d \in ClientDocs : storeChange(d)
  \/ advanceClock
  \/ \E t \in timers : timerFires(t)
  \/ unmount
  \/ \E r \in pending, ok \in BOOLEAN : saveCanvasFinish(r, ok)

SpecClient == Init /\ [][NextClient]_vars

(***************************************************************************)
(* Properties.                                                             *)
(***************************************************************************)
\* VIEW < EDIT < ADMIN: the pairs <<a, b>> with level a at least level b
AtLeast ==
  {<<"VIEW", "VIEW">>, <<"EDIT", "VIEW">>, <<"EDIT", "EDIT">>,
   <<"ADMIN", "VIEW">>, <<"ADMIN", "EDIT">>, <<"ADMIN", "ADMIN">>}

IsOwner(u, c) == c \in DOMAIN canvas /\ canvas[c].userId = u
\* a CanvasShare row for (c, u) whose level is at least l
HasShareAtLeast(u, c, l) ==
  \E s \in shares : s.canvasId = c /\ s.userId = u /\ <<s.permissionLevel, l>> \in AtLeast
HasShare(u, c) == \E s \in shares : s.canvasId = c /\ s.userId = u
CheckCalled == last.op = "checkCanvasPermission"

\* C1: the owner of an existing canvas passes checkCanvasPermission at every
\* level, with or without a CanvasShare row of their own and whatever its level;
\* a call of checkCanvasPermission by the owner returned true.
C1_OwnerPassesEveryCheck ==
  /\ \A c \in DOMAIN canvas, l \in Levels :
       checkCanvasPermission(canvas[c].userId, c, l)
  /\ (CheckCalled /\ IsOwner(last.userId, last.canvasId)) => last.result

\* C1 witness: the owner, holding only a VIEW share row on their own canvas,
\* asked for ADMIN and got true.
C1_Witness ==
  /\ CheckCalled /\ IsOwner(last.userId, last.canvasId)
  /\ last.level = "ADMIN" /\ last.result
  /\ \E s \in shares : /\ s.canvasId = last.canvasId /\ s.userId = last.userId
                       /\ s.permissionLevel = "VIEW"

\* C2: on a public canvas a user who is not the owner passes VIEW, and passes
\* EDIT or ADMIN only with a share row on that canvas of at least that level.
C2_PublicGrantsViewOnly ==
  /\ \A c \in DOMAIN canvas, u \in Users :
       (canvas[c].isPublic /\ ~IsOwner(u, c)) =>
         /\ checkCanvasPermission(u, c, "VIEW")
         /\ \A l \in {"EDIT", "ADMIN"} :
              checkCanvasPermission(u, c, l) => HasShareAtLeast(u, c, l)
  /\ (/\ CheckCalled /\ last.canvasId \in DOMAIN canvas
      /\ canvas[last.canvasId].isPublic /\ ~IsOwner(last.userId, last.canvasId)) =>
       IF last.level = "VIEW" THEN last.result
       ELSE last.result => HasShareAtLeast(last.userId, last.canvasId, last.level)

\* C2 witness: a non-owner with a VIEW share on a public canvas asked for EDIT
\* and was refused.
C2_Witness ==
  /\ CheckCalled /\ last.canvasId \in DOMAIN canvas
  /\ canvas[last.canvasId].isPublic /\ ~IsOwner(last.userId, last.canvasId)
  /\ last.level = "EDIT" /\ ~last.result
  /\ HasShareAtLeast(last.userId, last.canvasId, "VIEW")

\* C3: for a non-owner of an existing private canvas the check passes exactly
\* when a share row for (canvas, user) has rank >= the required rank; for an
\* absent canvas it fails; a check that passes at a level passes at every lower
\* level.
C3_ShareRankDecides ==
  /\ \A c \in DOMAIN canvas, u \in Users, l \in Levels :
       (~canvas[c].isPublic /\ ~IsOwner(u, c)) =>
         (checkCanvasPermission(u, c, l) <=> HasShareAtLeast(u, c, l))
  /\ \A c \in RequestIds \ DOMAIN canvas, u \in Users, l \in Levels :
       ~checkCanvasPermission(u, c, l)
  /\ \A c \in RequestIds, u \in Users, p \in AtLeast :
       checkCanvasPermission(u, c, p[1]) => checkCanvasPermission(u, c, p[2])
  /\ (/\ CheckCalled /\ last.canvasId \in DOMAIN canvas
      /\ ~canvas[last.canvasId].isPublic /\ ~IsOwner(last.userId, last.canvasId)) =>
       (last.result <=> HasShareAtLeast(last.userId, last.canvasId, last.level))
  /\ (CheckCalled /\ last.canvasId \notin DOMAIN canvas) => ~last.result

\* C3 witness: a non-owner whose share on a private canvas is exactly EDIT asked
\* for EDIT and passed.
C3_Witness ==
  /\ CheckCalled /\ last.canvasId \in DOMAIN canvas
  /\ ~canvas[last.canvasId].isPublic /\ ~IsOwner(last.userId, last.canvasId)
  /\ last.level = "EDIT" /\ last.result
  /\ \E s \in shares : /\ s.canvasId = last.canvasId /\ s.userId = last.userId
                       /\ s.permissionLevel = "EDIT"

\* removeCanvasShare returned, right after the owner's successful shareCanvas
\* of the same canvas with the same user, who is not the owner
SharedThenRemoved ==
  /\ last.op = "removeCanvasShare" /\ last.code = "OK"
  /\ last.prior # Undefined
  /\ ~IsOwner(last.target, last.canvasId)

\* C6 as claimed: after shareCanvas then removeCanvasShare every check of the
\* user gives what it gave before the share.
C6_Original ==
  SharedThenRemoved =>
    \A l \in Levels :
      checkCanvasPermission(last.target, last.canvasId, l) = TheValue(last.prior).before[l]

\* C6 amended: after shareCanvas then removeCanvasShare every check of the user
\* gives what it gave before the share, when the user had no share row on the
\* canvas before the share; in every case no share row of the user remains.
C6_ShareThenRemoveRestores ==
  SharedThenRemoved =>
    /\ ~HasShare(last.target, last.canvasId)
    /\ ~TheValue(last.prior).hadShare =>
         \A l \in Levels :
           checkCanvasPermission(last.target, last.canvasId, l)
             = TheValue(last.prior).before[l]

\* C6 witness: a user without a share on a private canvas was given one and
\* lost it again.
C6_Witness ==
  /\ SharedThenRemoved
  /\ ~TheValue(last.prior).hadShare
  /\ ~canvas[last.canvasId].isPublic
  /\ ~checkCanvasPermission(last.target, last.canvasId, "VIEW")

\* C4: a canvas starts at version 1 and its version is 1 + the number of
\* saveCanvas calls on it that returned; a denied or failed save counts for
\* nothing and leaves the version as it was.  A returned save reports that version.
C4_VersionCountsSaves ==
  /\ \A c \in DOMAIN canvas : canvas[c].version = 1 + saves[c].n
  /\ (last.op = "createCanvas" /\ last.canvasId \in DOMAIN canvas
      /\ saves[last.canvasId].n = 0) => last.version = 1
  /\ (last.op = "saveCanvas" /\ last.code = "OK") =>
       last.version = 1 + saves[last.canvasId].n

\* C4 witness: two saves have returned, the second made by a user who is not
\* the owner, and the version is 3.
C4_Witness ==
  /\ last.op = "saveCanvas" /\ last.code = "OK"
  /\ ~IsOwner(last.userId, last.canvasId)
  /\ saves[last.canvasId].n = 2 /\ canvas[last.canvasId].version = 3

\* C5: a loadCanvas that returns gives the document of the latest saveCanvas
\* that returned (the empty document before any) and the version that save
\* left, whoever saved and whoever loads.
C5_LoadReturnsLatestSave ==
  (last.op = "loadCanvas" /\ last.code = "OK") =>
    /\ last.result.document = saves[last.canvasId].document
    /\ last.result.version = 1 + saves[last.canvasId].n

\* C5 witness: a user with an EDIT share saved a document as the first save and
\* the owner's load right after returned it at version 2.
C5_Witness ==
  /\ last.op = "loadCanvas" /\ last.code = "OK"
  /\ IsOwner(last.userId, last.canvasId)
  /\ last.after # Undefined
  /\ ~IsOwner(TheValue(last.after), last.canvasId)
  /\ \E s \in shares : /\ s.canvasId = last.canvasId
                       /\ s.userId = TheValue(last.after)
                       /\ s.permissionLevel = "EDIT"
  /\ last.result.document = DocShape /\ last.result.version = 2

\* u is not the owner of the existing private canvas c and has no share on it
Stranger(u, c) ==
  /\ c \in DOMAIN canvas /\ ~canvas[c].isPublic
  /\ ~IsOwner(u, c) /\ ~HasShare(u, c)

\* C7: loadCanvas by a user who is neither owner of nor sharee on an existing
\* private canvas throws NOT_FOUND, the very error (code, message, status 404)
\* of a load of an id that has no canvas.
C7_LoadHidesInaccessible ==
  /\ \A u \in Users, c \in CanvasIds :
       Stranger(u, c) =>
         /\ LoadCanvasResult(u, c).code = "NOT_FOUND"
         /\ LoadCanvasResult(u, c) = LoadCanvasResult(u, MissingCanvas)
         /\ canvasErrorStatus(LoadCanvasResult(u, c).code) = 404
  /\ (last.op = "loadCanvas" /\ Stranger(last.userId, last.canvasId)) =>
       last.code = "NOT_FOUND"
  /\ (last.op = "loadCanvas" /\ last.canvasId \notin DOMAIN canvas) =>
       last.code = "NOT_FOUND"

\* C7 witness: such a user's load of an existing private canvas threw NOT_FOUND.
C7_Witness ==
  /\ last.op = "loadCanvas" /\ Stranger(last.userId, last.canvasId)
  /\ last.code = "NOT_FOUND"

\* the step is a saveCanvas call
SaveStep == last'.op = "saveCanvas" /\ last' # last
\* the caller of the step's call owns the addressed canvas or has an EDIT or
\* ADMIN share on it, before the step
CallerMayEdit ==
  \/ IsOwner(last'.userId, last'.canvasId)
  \/ HasShareAtLeast(last'.userId, last'.canvasId, "EDIT")

\* C8: a step changes a canvas row's content only as a saveCanvas by a caller
\* who owns the canvas or holds EDIT or ADMIN on it; any other caller of
\* saveCanvas gets PERMISSION_DENIED; a save that throws (denied, failed, or
\* addressed to an id without a canvas) leaves every canvas row as it was and
\* creates none.
C8_SaveNeedsEdit ==
  [][ /\ \A c \in DOMAIN canvas :
           (c \in DOMAIN canvas' /\ canvas'[c] # canvas[c]) =>
             /\ SaveStep /\ last'.code = "OK" /\ last'.canvasId = c
             /\ CallerMayEdit
      /\ SaveStep =>
           /\ ~CallerMayEdit => last'.code = "PERMISSION_DENIED"
           /\ last'.canvasId \notin DOMAIN canvas => last'.code # "OK"
           /\ last'.code # "OK" => canvas' = canvas
    ]_vars

\* C8 witness: a user with only a VIEW share on a public canvas called
\* saveCanvas and got PERMISSION_DENIED.
C8_Witness ==
  /\ last.op = "saveCanvas" /\ last.code = "PERMISSION_DENIED"
  /\ last.canvasId \in DOMAIN canvas /\ canvas[last.canvasId].isPublic
  /\ ~IsOwner(last.userId, last.canvasId)
  /\ \E s \in shares : /\ s.canvasId = last.canvasId /\ s.userId = last.userId
                       /\ s.permissionLevel = "VIEW"

\* the step is a deleteCanvas call
DeleteStep == last'.op = "deleteCanvas" /\ last' # last
\* the caller of the step's call owns the addressed canvas or has an ADMIN
\* share on it, before the step
CallerMayDelete ==
  \/ IsOwner(last'.userId, last'.canvasId)
  \/ HasShareAtLeast(last'.userId, last'.canvasId, "ADMIN")

\* C9: a step removes a canvas row only as a deleteCanvas by its owner or by a
\* holder of an ADMIN share on it; any other caller of deleteCanvas on an
\* existing canvas (a VIEW or EDIT share, public visibility only) gets
\* PERMISSION_DENIED and the Canvas, CanvasAsset and CanvasShare tables stay
\* as they were.
C9_DeleteNeedsAdmin ==
  [][ /\ \A c \in DOMAIN canvas :
           c \notin DOMAIN canvas' =>
             /\ DeleteStep /\ last'.code = "OK" /\ last'.canvasId = c
             /\ CallerMayDelete
      /\ (DeleteStep /\ last'.canvasId \in DOMAIN canvas /\ ~CallerMayDelete) =>
           /\ last'.code = "PERMISSION_DENIED"
           /\ UNCHANGED <<canvas, assets, shares>>
    ]_vars

\* C9 witness: a user with an EDIT share on a canvas that has an asset row
\* called deleteCanvas and got PERMISSION_DENIED.
C9_Witness ==
  /\ last.op = "deleteCanvas" /\ last.code = "PERMISSION_DENIED"
  /\ last.canvasId \in DOMAIN canvas
  /\ ~IsOwner(last.userId, last.canvasId)
  /\ \E s \in shares : /\ s.canvasId = last.canvasId /\ s.userId = last.userId
                       /\ s.permissionLevel = "EDIT"
  /\ \E a \in assets : a.canvasId = last.canvasId

\* C10: once deleteCanvas on a canvas has returned, no Canvas row has its id
\* and no CanvasAsset or CanvasShare row refers to it, in that state and in
\* every later one, whatever shareCanvas and createAssetRecord requests that
\* passed their lookup before the delete do afterwards.
C10_DeletedStaysGone ==
  \A c \in deleted :
    /\ c \notin DOMAIN canvas
    /\ \A a \in assets : a.canvasId # c
    /\ \A s \in shares : s.canvasId # c

\* C10 witness: a createAssetRecord that had passed its lookup ran its insert
\* after the canvas was deleted, and threw.
C10_Witness ==
  /\ last.op = "createAssetRecord" /\ last.code = "FAILED"
  /\ last.canvasId \in deleted

\* the step is a call of one of the three owner-only sharing operations
SharingStep ==
  /\ last'.op \in {"shareCanvas", "removeCanvasShare", "getCanvasShares"}
  /\ last' # last

\* C11: shareCanvas, removeCanvasShare and getCanvasShares succeed only for the
\* owner of the canvas; any other caller, a holder of an ADMIN share included,
\* gets NOT_FOUND, the CanvasShare table stays as it was and the call returns
\* no share.
C11_SharingIsOwnerOnly ==
  [][ SharingStep =>
        /\ last'.code = "OK" => IsOwner(last'.userId, last'.canvasId)
        /\ ~IsOwner(last'.userId, last'.canvasId) =>
             /\ last'.code = "NOT_FOUND"
             /\ shares' = shares
             /\ last'.op = "getCanvasShares" => last'.result = Undefined
    ]_vars

\* C11 witness: the holder of an ADMIN share asked for the shares of a canvas
\* that has some, and got NOT_FOUND.
C11_Witness ==
  /\ last.op = "getCanvasShares" /\ last.code = "NOT_FOUND"
  /\ HasShareAtLeast(last.userId, last.canvasId, "ADMIN")
  /\ ~IsOwner(last.userId, last.canvasId)

\* no two CanvasShare rows have the same (canvasId, userId)
OneSharePerUser ==
  \A s1, s2 \in shares :
    (s1.canvasId = s2.canvasId /\ s1.userId = s2.userId) => s1 = s2

\* C12: in every state there is at most one CanvasShare row per (canvasId,
\* userId), whatever shareCanvas and removeCanvasShare requests are in flight;
\* a shareCanvas for a user who has a row changes that row's level and adds no
\* row, one for a user who has none adds one row, and after either the user's
\* only row carries the level just shared.
C12_OneShareRowPerUser ==
  /\ []OneSharePerUser
  /\ [][ (last'.op = "shareCanvas" /\ last'.code = "OK" /\ last' # last) =>
           /\ Cardinality(shares') =
                IF HasShare(last'.target, last'.canvasId)
                THEN Cardinality(shares) ELSE Cardinality(shares) + 1
           /\ \A s \in SharesOf(shares', last'.canvasId, last'.target) :
                s.permissionLevel = last'.permissionLevel
           /\ Cardinality(SharesOf(shares', last'.canvasId, last'.target)) = 1
       ]_vars

\* C12 witness: a shareCanvas for a user who already had a share returned while
\* another sharing request was in flight, and the user's row has the new level.
C12_Witness ==
  /\ last.op = "shareCanvas" /\ last.code = "OK" /\ last.hadShare
  /\ pending # {}
  /\ \E s \in shares : /\ s.canvasId = last.canvasId /\ s.userId = last.target
                       /\ s.permissionLevel = last.permissionLevel

\* the canvases listCanvases is to return to the caller of the last call
Listable ==
  IF last.includeShared
  THEN {c \in DOMAIN canvas : checkCanvasPermission(last.userId, c, "VIEW")}
  ELSE {c \in DOMAIN canvas : IsOwner(last.userId, c)}

\* C13: listCanvases returns the canvases the caller owns, the public ones and
\* the ones shared with the caller (with includeShared = false only the owned
\* ones): totalCount counts them all, the items are the slice of at most limit
\* of them that starts at offset (page - 1) * limit of an ordering by updatedAt
\* descending, and isOwner is true exactly on the caller's own canvases.
C13_ListIsThePageOfVisible ==
  last.op = "listCanvases" =>
    LET offset == (last.page - 1) * last.limit
        items == last.canvases IN
    /\ last.totalCount = Cardinality(Listable)
    /\ \A i \in DOMAIN items : items[i].isOwner = IsOwner(last.userId, items[i].id)
    /\ \A i, j \in DOMAIN items :
         i < j => canvas[items[i].id].updatedAt >= canvas[items[j].id].updatedAt
    /\ Len(items) <= last.limit
    /\ \E rows \in OrderedByUpdatedAtDesc(canvas, Listable) :
         /\ Len(items) = IF Len(rows) - offset < 0 THEN 0
                         ELSE IF Len(rows) - offset < last.limit
                         THEN Len(rows) - offset ELSE last.limit
         /\ \A i \in DOMAIN items : items[i].id = rows[offset + i]

\* C13 witness: a caller who sees two canvases, one their own and one public or
\* shared, asked for the second page of one item and got the one updated
\* earlier, which is not the caller's.
C13_Witness ==
  /\ last.op = "listCanvases" /\ last.includeShared
  /\ last.page = 2 /\ last.limit = 1 /\ last.totalCount = 2
  /\ Len(last.canvases) = 1
  /\ ~last.canvases[1].isOwner
  /\ \E c \in DOMAIN canvas :
       canvas[c].updatedAt > canvas[last.canvases[1].id].updatedAt

\* the file types of FileTypes that are on the allow-list when case is ignored
AllowListed == {"image/png", "IMAGE/PNG", "Video/Mp4"}

LetThrough == last.code \notin {"PERMISSION_DENIED", "NOT_FOUND", "NULL"}

\* C15: the permission lookups written inline in the asset service decide as
\* checkCanvasPermission does: requestAssetUpload, createAssetRecord and
\* deleteAsset let the caller through exactly when the EDIT check on the
\* canvas is true, and listCanvasAssets, getAssetByAssetId and
\* getAssetDownloadUrl exactly when the VIEW check is true.
C15_InlineChecksAgree ==
  /\ last.op \in {"requestAssetUpload", "createAssetRecord"} =>
       LetThrough = checkCanvasPermission(last.userId, last.canvasId, "EDIT")
  /\ (last.op = "deleteAsset" /\ last.code # "NOT_FOUND") =>
       LetThrough = checkCanvasPermission(last.userId, last.canvasId, "EDIT")
  /\ last.op = "listCanvasAssets" =>
       LetThrough = checkCanvasPermission(last.userId, last.canvasId, "VIEW")
  /\ (last.op = "getAssetDownloadUrl" /\ last.code # "NOT_FOUND") =>
       LetThrough = checkCanvasPermission(last.userId, last.canvasId, "VIEW")
  /\ last.op = "getAssetByAssetId" =>
       /\ LetThrough => checkCanvasPermission(last.userId, last.canvasId, "VIEW")
       /\ (/\ checkCanvasPermission(last.userId, last.canvasId, "VIEW")
           /\ \E a \in assets : /\ a.canvasId = last.canvasId
                                /\ a.assetId = last.assetId) => LetThrough

\* C15 witness: a user with a VIEW share on a private canvas was given a
\* download URL for one of its assets.
C15_Witness ==
  /\ last.op = "getAssetDownloadUrl" /\ last.code = "OK"
  /\ ~IsOwner(last.userId, last.canvasId)
  /\ ~canvas[last.canvasId].isPublic
  /\ \E s \in shares : /\ s.canvasId = last.canvasId /\ s.userId = last.userId
                       /\ s.permissionLevel = "VIEW"

\* the step is a deleteAsset call
DeleteAssetStep ==
  last'.op = "deleteAsset" /\ (last' # last \/ assets' # assets)

\* C16: a deleteAsset by the owner of the asset's canvas, or by a holder of an
\* EDIT or ADMIN share on it, on an asset row that exists, tries the remote
\* delete and then removes the row and returns normally, whether the remote
\* delete succeeded (the object is gone) or threw (the bucket is as it was).
C16_DeleteAssetIsBestEffort ==
  [][ DeleteAssetStep =>
        \A a \in AssetRow(assets, last'.assetId) :
          (IsOwner(last'.userId, a.canvasId)
           \/ HasShareAtLeast(last'.userId, a.canvasId, "EDIT")) =>
            /\ last'.code = "OK"
            /\ a \notin assets'
            /\ last'.remote \in {"deleted", "failed"}
            /\ last'.remote = "deleted" => a.r2Key \notin r2'
            /\ last'.remote = "failed" => r2' = r2
    ]_vars

\* C16 witness: a deleteAsset returned normally after its remote delete threw:
\* the row is gone and the object is still in the bucket.
C16_Witness ==
  /\ last.op = "deleteAsset" /\ last.code = "OK" /\ last.remote = "failed"
  /\ AssetRow(assets, last.assetId) = {}
  /\ generateAssetKey(last.canvasId, 1) \in r2

\* the document of canvas c has a record whose props.assetId is assetId
Refers(c, assetId) ==
  \E k \in DOMAIN canvas[c].documentData :
    /\ "props" \in DOMAIN canvas[c].documentData[k]
    /\ "assetId" \in DOMAIN canvas[c].documentData[k].props
    /\ canvas[c].documentData[k].props.assetId = assetId

\* the step is a cleanupOrphanedAssets call that found its canvas
CleanupStep ==
  /\ last'.op = "cleanupOrphanedAssets" /\ last'.code = "OK"
  /\ last' # last \/ assets' # assets

\* C17 as stated: after a cleanupOrphanedAssets of c that ran alone, every
\* CanvasAsset row of c is referred to by c's document.
C17_Original ==
  (last.op = "cleanupOrphanedAssets" /\ last.code = "OK") =>
    \A a \in assets : a.canvasId = last.canvasId => Refers(last.canvasId, a.assetId)

\* C17: a cleanupOrphanedAssets of c that runs alone deletes the rows of c
\* whose assetId c's document does not refer to and whose remote delete
\* succeeded, together with their objects; it keeps the rows the document
\* refers to, the rows whose remote delete threw and the rows of other
\* canvases; and it returns the number of rows it deleted.
C17_CleanupSweepsOrphans ==
  [][ CleanupStep =>
        /\ \A a \in assets :
             IF /\ a.canvasId = last'.canvasId
                /\ ~Refers(last'.canvasId, a.assetId)
                /\ a.id \notin last'.failing
             THEN a \notin assets' /\ a.r2Key \notin r2'
             ELSE a \in assets'
        /\ assets' \subseteq assets
        /\ last'.deletedCount = Cardinality(assets \ assets')
    ]_vars

\* C17 witness: a cleanup deleted one row and kept another that the document
\* refers to.
C17_Witness ==
  /\ last.op = "cleanupOrphanedAssets" /\ last.code = "OK"
  /\ last.deletedCount = 1 /\ last.failing = {}
  /\ \E a \in assets : a.canvasId = last.canvasId /\ Refers(last.canvasId, a.assetId)

\* C18: the loop of cleanupOrphanedAssets deletes the rows that were orphans
\* when it read the document, and their objects, without reading the document
\* again: a row that a saveCanvas made referred to in between is deleted all
\* the same (unless its remote delete throws).
C18_CleanupDeletesWhatItRead ==
  [][ CleanupStep =>
        \A a \in last'.orphans :
          (a.id \notin last'.failing /\ a \in assets) =>
            a \notin assets' /\ a.r2Key \notin r2'
    ]_vars

\* C18 witness: the saved document refers to an asset whose row and object a
\* cleanup has just deleted: no CanvasAsset row has that assetId.
C18_Witness ==
  /\ last.op = "cleanupOrphanedAssets" /\ last.code = "OK"
  /\ \E a \in last.orphans :
       /\ a.id \notin last.failing
       /\ Refers(last.canvasId, a.assetId)
       /\ \A b \in assets : ~(b.canvasId = a.canvasId /\ b.assetId = a.assetId)
       /\ a.r2Key \notin r2

\* C19: with saveCanvas calls on one canvas in flight together, each update
\* that succeeds adds one to the version as it is when the update runs: the
\* version is its starting value plus the number of saves that returned, the
\* versions returned are pairwise distinct, the stored document is the one of
\* the update applied last, and a save fails only when its own update throws,
\* never because another save ran in between.
C19_ConcurrentSavesCount ==
  /\ \A c \in DOMAIN canvas :
       /\ canvas[c].version = 1 + saves[c].n
       /\ canvas[c].version = 1 + Len(returned)
       /\ saves[c].n > 0 => canvas[c].documentData = saves[c].document
  /\ \A i, j \in DOMAIN returned : i # j => returned[i] # returned[j]
  /\ (last.op = "saveCanvas" /\ last.code = "FAILED") => ~last.dbOk
  /\ (last.op = "saveCanvas" /\ last.code = "OK") =>
       /\ last.version = canvas[last.canvasId].version
       /\ last.document = canvas[last.canvasId].documentData

\* C19 witness: two saves that both read version 1 have both returned, the
\* first with version 2 and the second with version 3.
C19_Witness ==
  /\ returned = <<2, 3>>
  /\ last.op = "saveCanvas" /\ last.code = "OK"
  /\ last.seen = 1 /\ last.version = 3

\* the step is a call made while the lookup of checkCanvasPermission throws
CallUnderFailure == lookupDown /\ lookupDown' /\ last' # last

\* C20: while the canvas lookup of checkCanvasPermission throws, the function
\* returns false and no table changes: loadCanvas throws NOT_FOUND with the
\* message of a denial, saveCanvas and deleteCanvas throw PERMISSION_DENIED,
\* for the owner as for anyone else.
C20_LookupFailureDenies ==
  [][ CallUnderFailure =>
        /\ last'.op = "checkCanvasPermission" => ~last'.result
        /\ last'.op = "loadCanvas" =>
             /\ last'.code = "NOT_FOUND"
             /\ last'.result.message = "Canvas not found or access denied"
        /\ last'.op \in {"saveCanvas", "deleteCanvas"} =>
             last'.code = "PERMISSION_DENIED"
        /\ last'.op \in {"checkCanvasPermission", "loadCanvas", "saveCanvas",
                         "deleteCanvas"} =>
             UNCHANGED <<canvas, shares, assets>>
    ]_vars

\* C20 witness: the owner's saveCanvas was refused with PERMISSION_DENIED
\* while the lookup was failing.
C20_Witness ==
  /\ lookupDown
  /\ last.op = "saveCanvas" /\ last.code = "PERMISSION_DENIED"
  /\ IsOwner(last.userId, last.canvasId)

(***************************************************************************)
(* C21, C22: the HTTP boundary.                                            *)
(***************************************************************************)
\* the outcomes that are answers to an HTTP request
Answered == last.op \notin {"none", "createCanvas"}

\* C21: every outcome has its fixed status: malformed or missing input,
\* a rejected file type or size included, 400; PERMISSION_DENIED 403;
\* NOT_FOUND 404; a failure of the database or of the object store 500 and
\* never a 4xx status.  The handlers do not keep this: the service rethrows
\* such a failure as an error without a code, which the catch blocks answer
\* with 400, a file that is too large is answered with 413, and a body
\* that does not parse with 500.
C21_FixedStatusPerOutcome ==
  Answered =>
    /\ last.code \in {"VALIDATION_ERROR", "SYNTAX_ERROR", "INVALID_FILE_TYPE",
                      "FILE_TOO_LARGE"} => HttpStatus(last) = 400
    /\ last.code = "PERMISSION_DENIED" => HttpStatus(last) = 403
    /\ last.code = "NOT_FOUND" => HttpStatus(last) = 404
    /\ last.code = "FAILED" => HttpStatus(last) = 500

\* a handler's step for a request that carries no session
UnauthenticatedRequest ==
  \/ \E c \in HttpCanvasIds : GET_canvas(Undefined, c)
  \/ \E c \in HttpCanvasIds, parses \in BOOLEAN, b \in PutBodies, ok \in BOOLEAN :
       PUT_canvas(Undefined, c, parses, b, ok)
  \/ \E c \in HttpCanvasIds : DELETE_canvas(Undefined, c)
  \/ \E b \in UploadBodies, config \in R2Configs :
       POST_assets_upload(Undefined, b, config, 1)
  \/ \E b \in AssetBodies : POST_assets(Undefined, b)
  \/ \E a \in AssetRowIds \cup {""}, ok \in BOOLEAN : DELETE_asset(Undefined, a, ok)

\* the operations of the canvas and asset services
ServiceOperations ==
  {"loadCanvas", "saveCanvas", "deleteCanvas", "requestAssetUpload",
   "createAssetRecord", "deleteAsset"}

\* C22: a request without an authenticated session is answered with 401 and
\* no service operation is invoked for it.  POST /api/assets/upload does not
\* keep this: it validates the body before it asks for the session, and for
\* a local canvas it calls requestAssetUpload as user "anonymous" without
\* asking for one.
C22_NoSessionNoService ==
  [][UnauthenticatedRequest =>
       /\ last'.op \notin ServiceOperations
       /\ HttpStatus(last') = 401]_vars

(***************************************************************************)
(* C23: the middleware.                                                    *)
(***************************************************************************)
\* C23: an unauthenticated request for a path that is not one of the public
\* routes (/dashboard, /admin, /r2-test, /canvas/<id>) is redirected to
\* /auth/signin, an authenticated request for the sign-in or register page is
\* redirected to /dashboard, and every other request is let through.  The
\* middleware does not keep this: "/" is one of publicRoutes and every
\* pathname starts with it, so isPublicRoute is always true and no request
\* is redirected to /auth/signin.
C23_MiddlewareProtects ==
  last.op = "middleware" =>
    LET public == IF last.version = 1 THEN publicRoutes ELSE publicRoutes_2 IN
    last.result =
      IF last.auth = Undefined /\ last.pathname \notin public
      THEN [redirect |-> SignIn]
      ELSE IF last.auth # Undefined /\ last.pathname \in {SignIn, Register}
      THEN [redirect |-> Dashboard]
      ELSE [next |-> TRUE]

(***************************************************************************)
(* C24: the debounce of the client auto-save.                              *)
(***************************************************************************)
\* at most one save timer is pending
OneTimerPending == Cardinality(timers) <= 1

\* every save fired 1 second after a store change that no later change followed
\* within that second
FiredAfterQuietSecond ==
  \A i \in 1..Len(fired) :
    \E j \in 1..Len(changes) :
      /\ changes[j] + DebounceMs = fired[i].at
      /\ \A k \in 1..Len(changes) : ~(changes[j] < changes[k] /\ changes[k] < fired[i].at)

\* no burst is saved twice: between two saves there was a change
OneSavePerBurst ==
  \A i, j \in 1..Len(fired) :
    i < j => \E k \in 1..Len(changes) :
               fired[i].at <= changes[k] /\ changes[k] + DebounceMs <= fired[j].at

\* the last change of a burst is saved once its second has passed
BurstIsSaved ==
  (editor = "mounted" /\ changes # << >>
     /\ clock > changes[Len(changes)] + DebounceMs) =>
    \E i \in 1..Len(fired) : fired[i].at = changes[Len(changes)] + DebounceMs

C25_NoBinaryThroughServer ==
  /\ \A key \in r2 : key[1] = "canvases"
  /\ "received" \in DOMAIN last => last.received = Undefined

(***************************************************************************)
(* C26: the upload flow of the client.                                     *)
(***************************************************************************)
\* C26: the flow requests an upload URL, sends the file to the presigned URL
\* of that response, records the asset through POST /api/assets, and yields
\* the public URL only when all of this succeeded, so that an asset it yields
\* has its object in the bucket and its CanvasAsset row.  The client does not
\* keep this: it sends the file to uploadData.url, a field the response does
\* not have, never calls POST /api/assets, and returns the public URL when the
\* POST of the file was answered ok.
C26_UploadFlowRecordsAsset ==
  last.op = "uploadFileToR2" =>
    /\ last.step = 2 => last.sentTo = last.presigned
    /\ last.code = "OK" =>
         LET key == TheValue(last.presigned)[2] IN
         /\ key \in r2
         /\ \E a \in assets : a.r2Key = key

(***************************************************************************)
(* C27: a save and the loss of EDIT between its check and its update.      *)
(***************************************************************************)
\* C27: a save is applied only at a moment when the saving user has EDIT on
\* the canvas: a step that applies the update of a saveCanvas starts in a
\* state where checkCanvasPermission grants that user EDIT.  saveCanvas checks
\* first and updates in a later statement, outside any transaction, so a
\* removeCanvasShare or a re-share to VIEW that completes in between does not
\* stop the update.
C27_SaveAppliedOnlyWithEdit ==
  [][saves' # saves => SavePermission(last'.userId, last'.canvasId)]_vars

(***************************************************************************)
(* C28: the permission field of a listed canvas.                           *)
(***************************************************************************)
\* C28: the permission of every item listCanvases returns to a user is the
\* highest level checkCanvasPermission grants that user on the canvas.  The
\* list takes the level of the user's share row before it looks at ownership,
\* and shareCanvas accepts the owner as target, so an owner with a share row
\* on their own canvas is listed with that row's level while
\* checkCanvasPermission grants them ADMIN.
C28_ListedPermissionIsHighestGranted ==
  (last.op = "listCanvases" /\ last.code = "OK") =>
    \A i \in 1..Len(last.canvases) :
      LET item == last.canvases[i] IN
      /\ checkCanvasPermission(last.userId, item.id, item.permission)
      /\ \A l \in Levels :
           checkCanvasPermission(last.userId, item.id, l) =>
             permissionLevels(l) <= permissionLevels(item.permission)

(***************************************************************************)
(* C29: the objects deleteAsset and cleanupOrphanedAssets delete.          *)
(***************************************************************************)
\* C29: an object that deleteAsset or cleanupOrphanedAssets deletes from the
\* bucket has a key under canvases/<canvasId>/assets/ of the canvas of the
\* asset row, the canvas the permission was checked on.  createAssetRecord
\* stores the r2Key of the request as it is, so a row of canvas A can carry a
\* key of canvas B, and deleting that row deletes B's object.
C29_DeletesOnlyOwnCanvasObjects ==
  [][\A key \in r2 \ r2' : key[2] = last'.canvasId]_vars

(***************************************************************************)
(* C30: the server's document after the client's auto-saves.               *)
(***************************************************************************)
\* the client has stopped editing and its auto-saves are over: no timer is
\* pending, no save is in flight, every save sent was applied, and the last
\* one was sent after the last change
AutoSavesCompleted ==
  /\ timers = {}
  /\ PendingSaves(ClientCanvas) = {}
  /\ fired # << >> /\ changes # << >>
  /\ saves[ClientCanvas].n = Len(fired)
  /\ fired[Len(fired)].at > changes[Len(changes)]

\* no save was sent while an earlier one was in flight
NoOverlappingSaves == \A i \in 1..Len(fired) : fired[i].inFlight = 0

\* C30 as stated: once the client has stopped editing and all its auto-saves
\* have completed successfully, the stored document is the client's latest
\* snapshot, also when a save was sent while an earlier one was in flight.
\* The server applies the updates in the order they reach the database, so
\* an earlier save that is applied last leaves its older snapshot.
C30_Original_ServerHasLatestSnapshot ==
  AutoSavesCompleted => canvas[ClientCanvas].documentData = store

\* C30 (amended): once the client has stopped editing and all its auto-saves
\* have completed successfully, the stored document is the client's latest
\* snapshot, provided no save was sent while an earlier one was in flight.
C30_ServerHasLatestSnapshotWithoutOverlap ==
  (AutoSavesCompleted /\ NoOverlappingSaves) =>
    canvas[ClientCanvas].documentData = store

\* two auto-saves, one after the other, both applied, a drawn document stored
C30_Witness ==
  /\ AutoSavesCompleted /\ NoOverlappingSaves
  /\ Len(fired) >= 2
  /\ store # EmptyDoc
  /\ canvas[ClientCanvas].documentData = store
====
